---- MODULE Spec2Model ----
(***************************************************************************)
(* Document / session storage layer of the voice content platform:         *)
(* the draft collection (db.json) and the completed collection (blog.json),*)
(* the HTTP route handlers that read-modify-write them, and the            *)
(* DocumentService calls that are composed of those requests.              *)
(***************************************************************************)
EXTENDS Integers, Sequences, FiniteSets, TLC

(* ---------------------------- bounds ---------------------------------- *)
MaxDocs == 2
MaxSessions == 1
MaxTranscriptLen == 4
MaxRejected == 1
MaxGenerations == 1
MaxEmptyParts == 1
MaxContinuations == 1
MaxEditorSessions == 3

(* ------------------------ program constants --------------------------- *)
maxRetries == 3
baseDelay == 500
maxDelay == 2000
maxAttempts == 5
accessBaseDelay == 200

(* ---------------------------- inputs ---------------------------------- *)
NewDocuments == {[userId |-> 1, title |-> "T"], [userId |-> 1, title |-> "t"],
                 [userId |-> 2, title |-> "T"]}
Platforms == {"blog", "linkedin", "twitter", "podcast"}
Recordings == {[transcript |-> <<"a">>, duration |-> 2],
               [transcript |-> <<" ", "a", " ", "b">>, duration |-> 1]}
AppendedTranscripts == {<<"c">>}
EditedTexts == {"r"}
EditedPlatforms == {"linkedin"}
Statuses == {"draft", "completed"}

VARIABLES draftDb, completedDb, nextDocId, nextSessionId, pending, rejected, call,
          storage, generation, posts

vars == <<draftDb, completedDb, nextDocId, nextSessionId, pending, rejected, call, storage,
          generation, posts>>

(* ----------------------- string helpers ------------------------------- *)
\* \s over the characters the model uses
IsSpace(c) == c \in {" ", "\n"}

toLowerCase(t) == IF t = "T" THEN "t" ELSE t

RECURSIVE trimStart(_)
trimStart(s) ==
  IF s = <<>> THEN s
  ELSE IF IsSpace(Head(s)) THEN trimStart(Tail(s)) ELSE s

RECURSIVE trimEnd(_)
trimEnd(s) ==
  IF s = <<>> THEN s
  ELSE IF IsSpace(s[Len(s)]) THEN trimEnd(SubSeq(s, 1, Len(s) - 1)) ELSE s

trim(s) == trimEnd(trimStart(s))

\* s.split(/\s+/).length: one more than the number of maximal whitespace runs
splitLength(s) ==
  1 + Cardinality({i \in 1..Len(s) : IsSpace(s[i]) /\ (i = 1 \/ ~IsSpace(s[i - 1]))})

Words(t) == splitLength(trim(t))

(* ----------------------- array helpers -------------------------------- *)
\* Array.prototype.findIndex on ids; 0 stands for JavaScript's -1
findIndex(arr, id) ==
  IF \E i \in 1..Len(arr) : arr[i].id = id
  THEN CHOOSE i \in 1..Len(arr) : arr[i].id = id /\ \A j \in 1..(i - 1) : arr[j].id # id
  ELSE 0

ofDocument(sessions, documentId) ==
  SelectSeq(sessions, LAMBDA s : s.documentId = documentId)

notOfDocument(sessions, documentId) ==
  SelectSeq(sessions, LAMBDA s : s.documentId # documentId)

withoutId(arr, id) == SelectSeq(arr, LAMBDA x : x.id # id)

RECURSIVE sumDuration(_)
sumDuration(sessions) ==
  IF sessions = <<>> THEN 0 ELSE Head(sessions).duration + sumDuration(Tail(sessions))

RECURSIVE sumWords(_)
sumWords(sessions) ==
  IF sessions = <<>> THEN 0 ELSE Words(Head(sessions).transcript) + sumWords(Tail(sessions))

\* { ...doc, ...body }: a shallow merge, a key of body replaces the whole value
merge(doc, body) ==
  [f \in DOMAIN doc |-> IF f \in DOMAIN body THEN body[f] ELSE doc[f]]

NoContent == [p \in {} |-> ""]

(* ------------------- hybrid storage service reads --------------------- *)
\* getVoiceSessions: the sessions of a document merged over both collections
getVoiceSessions(draft, completed, documentId) ==
  ofDocument(draft.voiceSessions, documentId) \o ofDocument(completed.voiceSessions, documentId)

getUserDocuments(draft, userId) ==
  SelectSeq(draft.userDocuments, LAMBDA d : d.userId = userId)

getCompletedDocuments(completed, userId) ==
  SelectSeq(completed.userDocuments, LAMBDA d : d.userId = userId)

\* GET /userDocuments?userId=&status=
listDocuments(draft, completed, userId, status) ==
  IF status = "completed" THEN getCompletedDocuments(completed, userId)
  ELSE SelectSeq(getUserDocuments(draft, userId), LAMBDA d : d.status = "draft")

(* ----------------------- route handlers ------------------------------- *)
\* POST /userDocuments
PostUserDocument(db, newId, userId, title) ==
  IF \E i \in 1..Len(db.userDocuments) :
        /\ db.userDocuments[i].userId = userId
        /\ toLowerCase(db.userDocuments[i].title) = toLowerCase(title)
  THEN [db |-> db, code |-> 400]
  ELSE [db |-> [db EXCEPT !.userDocuments = Append(@,
                  [id |-> newId, userId |-> userId, title |-> title,
                   totalDuration |-> 0, totalSessions |-> 0, wordCount |-> 0,
                   status |-> "draft", hasGeneratedContent |-> FALSE,
                   requiresRegeneration |-> FALSE, generatedContent |-> NoContent])],
        code |-> 201]

\* GET /userDocuments/{id}
GetUserDocument(db, id) == IF findIndex(db.userDocuments, id) = 0 THEN 404 ELSE 200

\* PATCH /userDocuments/{id}
PatchUserDocument(db, id, body) ==
  LET i == findIndex(db.userDocuments, id) IN
  IF i = 0 THEN [db |-> db, code |-> 404]
  ELSE [db |-> [db EXCEPT !.userDocuments[i] = merge(@, body)], code |-> 200]

\* DELETE /userDocuments/{id}
DeleteUserDocument(db, id) ==
  LET i == findIndex(db.userDocuments, id) IN
  IF i = 0 THEN [db |-> db, code |-> 404]
  ELSE [db |-> [db EXCEPT !.userDocuments =
                  SubSeq(@, 1, i - 1) \o SubSeq(@, i + 1, Len(@))],
        code |-> 200]

\* the parent-document update shared by the session routes
invalidated(doc) ==
  [doc EXCEPT !.hasGeneratedContent = TRUE, !.requiresRegeneration = TRUE]

recalculated(doc, remaining) ==
  [invalidated(doc) EXCEPT !.totalSessions = Len(remaining),
                           !.totalDuration = sumDuration(remaining),
                           !.wordCount = sumWords(remaining)]

\* POST /voiceSessions
PostVoiceSession(db, newId, body) ==
  LET pushed == [db EXCEPT !.voiceSessions = Append(@, [body EXCEPT !.id = newId])]
      docIndex == findIndex(db.userDocuments, body.documentId)
  IN IF docIndex = 0 THEN pushed
     ELSE [pushed EXCEPT !.userDocuments[docIndex] = invalidated(@)]

\* PUT /voiceSessions/{id}
PutVoiceSession(db, id, body) ==
  LET sessionIndex == findIndex(db.voiceSessions, id) IN
  IF sessionIndex = 0 THEN [db |-> db, code |-> 404]
  ELSE
    LET updated == merge(db.voiceSessions[sessionIndex], body)
        stored == [db EXCEPT !.voiceSessions[sessionIndex] = updated]
        docIndex == findIndex(db.userDocuments, updated.documentId)
        remaining == ofDocument(stored.voiceSessions, updated.documentId)
    IN [db |-> IF docIndex = 0 THEN stored
               ELSE [stored EXCEPT !.userDocuments[docIndex] = recalculated(@, remaining)],
        code |-> 200]

\* DELETE /voiceSessions/{id}
DeleteVoiceSession(db, id) ==
  LET sessionIndex == findIndex(db.voiceSessions, id) IN
  IF sessionIndex = 0 THEN [db |-> db, code |-> 404]
  ELSE
    LET removed == db.voiceSessions[sessionIndex]
        spliced == [db EXCEPT !.voiceSessions =
                      SubSeq(@, 1, sessionIndex - 1) \o SubSeq(@, sessionIndex + 1, Len(@))]
        docIndex == findIndex(db.userDocuments, removed.documentId)
        remaining == ofDocument(spliced.voiceSessions, removed.documentId)
    IN [db |-> IF docIndex = 0 THEN spliced
               ELSE [spliced EXCEPT !.userDocuments[docIndex] = recalculated(@, remaining)],
        code |-> 200]

\* a check that also refuses content marked stale
canCompleteOnlyFresh(document) ==
  document.hasGeneratedContent /\ ~document.requiresRegeneration

\* the check that lets a document become completed
canComplete(document) == document.hasGeneratedContent

\* PUT /userDocuments/{id}/status: the new content of both collections, the
\* response code, and the collections the handler saves
PutStatus(draft, completed, documentId, status) ==
  LET inDraft == findIndex(draft.userDocuments, documentId)
      inCompleted == findIndex(completed.userDocuments, documentId)
      isInDraftDb == inDraft # 0
      unchanged == [draft |-> draft, completed |-> completed, saves |-> {}]
  IN
  IF inDraft = 0 /\ inCompleted = 0 THEN unchanged @@ [code |-> 404]
  ELSE
    LET document == IF isInDraftDb THEN draft.userDocuments[inDraft]
                    ELSE completed.userDocuments[inCompleted]
        updatedDocument == [document EXCEPT !.status = status]
        sessions == (draft.voiceSessions \o completed.voiceSessions)
        mine == ofDocument(sessions, documentId)
    IN
    IF status = "completed" /\ ~canComplete(document)
    THEN unchanged @@ [code |-> 400]
    ELSE IF status = "completed" /\ isInDraftDb THEN
      [draft |-> [userDocuments |-> withoutId(draft.userDocuments, documentId),
                  voiceSessions |-> notOfDocument(draft.voiceSessions, documentId)],
       completed |-> [userDocuments |->
                        Append(withoutId(completed.userDocuments, documentId), updatedDocument),
                      voiceSessions |->
                        notOfDocument(completed.voiceSessions, documentId) \o mine],
       saves |-> {"draft", "completed"}, code |-> 200]
    ELSE IF status = "completed" THEN
      [draft |-> draft,
       completed |-> [completed EXCEPT !.userDocuments[inCompleted] = updatedDocument],
       saves |-> {"completed"}, code |-> 200]
    ELSE IF ~isInDraftDb THEN
      [draft |-> [userDocuments |->
                    Append(withoutId(draft.userDocuments, documentId), updatedDocument),
                  voiceSessions |->
                    notOfDocument(draft.voiceSessions, documentId) \o mine],
       completed |-> [userDocuments |-> withoutId(completed.userDocuments, documentId),
                      voiceSessions |-> notOfDocument(completed.voiceSessions, documentId)],
       saves |-> {"draft", "completed"}, code |-> 200]
    ELSE
      [draft |-> [draft EXCEPT !.userDocuments[inDraft] = updatedDocument],
       completed |-> completed,
       saves |-> {"draft"}, code |-> 200]

(* ------------------------ DocumentService ----------------------------- *)
\* updateDocumentStats(documentId, newSession): GET the document, GET its
\* sessions, PATCH the three totals
updateDocumentStats(draft, completed, documentId) ==
  IF GetUserDocument(draft, documentId) # 200 THEN [db |-> draft, ok |-> FALSE]
  ELSE
    LET sessions == getVoiceSessions(draft, completed, documentId)
        patched == PatchUserDocument(draft, documentId,
                     [totalSessions |-> Len(sessions),
                      totalDuration |-> sumDuration(sessions),
                      wordCount |-> sumWords(sessions)])
    IN [db |-> patched.db, ok |-> patched.code = 200]

\* addSession inside retryWithBackoff: the whole operation, its POST included,
\* is run again while the error is retryable and retryCount < maxRetries
RECURSIVE addSession(_, _, _, _, _)
addSession(draft, completed, newId, body, retryCount) ==
  LET posted == PostVoiceSession(draft, newId, body)
      stats == updateDocumentStats(posted, completed, body.documentId)
  IN IF stats.ok THEN [db |-> stats.db, ok |-> TRUE, posts |-> retryCount + 1]
     ELSE IF retryCount < maxRetries
          THEN addSession(stats.db, completed, newId + 1, body, retryCount + 1)
          ELSE [db |-> stats.db, ok |-> FALSE, posts |-> retryCount + 1]

RECURSIVE deleteSessions(_, _)
deleteSessions(db, sessions) ==
  IF sessions = <<>> THEN db
  ELSE deleteSessions(DeleteVoiceSession(db, Head(sessions).id).db, Tail(sessions))

\* deleteDocument inside retryWithBackoff
RECURSIVE deleteDocument(_, _, _, _)
deleteDocument(draft, completed, documentId, retryCount) ==
  LET sessions == getVoiceSessions(draft, completed, documentId)
      cleared == deleteSessions(draft, sessions)
      deleted == DeleteUserDocument(cleared, documentId)
  IN IF deleted.code = 200 THEN [db |-> deleted.db, ok |-> TRUE]
     ELSE IF retryCount < maxRetries
          THEN deleteDocument(deleted.db, completed, documentId, retryCount + 1)
          ELSE [db |-> deleted.db, ok |-> FALSE]

\* the body saveGeneratedContent sends
savedContentBody ==
  [generatedContent |-> [p \in Platforms |-> "g"], hasGeneratedContent |-> TRUE]

\* the body updateGeneratedPlatform sends
platformBody(platform, text) ==
  [generatedContent |-> (platform :> text), hasGeneratedContent |-> TRUE]

\* SessionEditModal.handleSave: the transcript sent in the PUT body
mergedTranscript(transcript, appended) ==
  transcript
    \o (IF transcript = <<>> \/ IsSpace(transcript[Len(transcript)]) THEN <<>> ELSE <<" ">>)
    \o trim(appended)

(* --------------------------- state ------------------------------------ *)
\* ids a session can get: a call that starts at MaxSessions may post maxRetries more
SessionIds == 1..(MaxSessions + maxRetries)

DocIds == 1..MaxDocs

\* no DocumentService read call has been made yet
NoCall == [op |-> "none", target |-> 0, retryCounts |-> <<>>, attempts |-> 0,
           delays |-> <<>>, status |-> "idle", error |-> [message |-> "", status |-> 0],
           posts |-> 0, created |-> 0]

\* a file or object that does not exist, and the backends before any of them does
Absent == <<>>

NoOutcome == [threw |-> FALSE, value |-> [none |-> TRUE]]

NoStorage == [useS3Local |-> FALSE, production |-> FALSE, useS3 |-> FALSE,
              s3 |-> [db |-> Absent, blog |-> Absent],
              local |-> [db |-> Absent, blog |-> Absent],
              op |-> "none", calls |-> <<>>, result |-> NoOutcome, saved |-> <<>>]

EmptyDb == [userDocuments |-> <<>>, voiceSessions |-> <<>>]

\* the model requests a generation call can send: one kind per generateContent
\* platform, the thread prompt and the refinement turn
RequestKinds == Platforms \cup {"thread", "refine"}

\* a generateContent promise of generateAllContent that has not settled yet
Unsettled == [done |-> FALSE, text |-> <<>>]

\* no generation call has been made yet
NoGeneration ==
  [op |-> "none", platform |-> "none", documentId |-> 0, originalText |-> <<>>,
   db |-> EmptyDb, phase |-> "idle", turn |-> 0, all |-> <<>>, sections |-> <<>>,
   chunk |-> 0, total |-> 0, truncated |-> FALSE, empty |-> FALSE,
   sent |-> [k \in RequestKinds |-> 0], failures |-> 0,
   linkedinPost |-> Unsettled, twitterPost |-> Unsettled, base |-> <<>>,
   threadText |-> <<>>, fellBack |-> FALSE, thread |-> <<>>,
   status |-> "idle", result |-> <<>>, error |-> "", code |-> 0, calls |-> 0,
   fallbackCause |-> <<>>, convo |-> <<>>, parts |-> <<>>, cut |-> FALSE,
   threadFailed |-> FALSE, refineText |-> <<>>]

\* the POST /voiceSessions requests that are handled at the same time
Requests == {1, 2}

\* no request has arrived: at is the handler's position, db what it read, seq
\* the position of its save among the saves
NoPosts == [q \in Requests |-> [at |-> "idle", db |-> <<>>, body |-> <<>>, id |-> 0, seq |-> 0]]

Init ==
  /\ draftDb = EmptyDb
  /\ completedDb = EmptyDb
  /\ nextDocId = 1
  /\ nextSessionId = 1
  /\ pending = <<>>
  /\ rejected = 0
  /\ call = NoCall
  /\ storage = NoStorage
  /\ generation = NoGeneration
  /\ posts = NoPosts

idsOf(arr) == {arr[i].id : i \in 1..Len(arr)}

AllDocIds == idsOf(draftDb.userDocuments) \cup idsOf(completedDb.userDocuments)

AllSessionIds == idsOf(draftDb.voiceSessions) \cup idsOf(completedDb.voiceSessions)

\* the copy of a session a client holds: the first one the merged listing shows
listedSession(id) ==
  LET all == draftDb.voiceSessions \o completedDb.voiceSessions
  IN all[findIndex(all, id)]

(* --------------------------- actions ---------------------------------- *)
\* POST /userDocuments
CreateDocument(userId, title) ==
  /\ pending = <<>>
  /\ nextDocId <= MaxDocs
  /\ LET r == PostUserDocument(draftDb, nextDocId, userId, title) IN
     /\ draftDb' = r.db
     /\ nextDocId' = IF r.code = 201 THEN nextDocId + 1 ELSE nextDocId
  /\ UNCHANGED <<posts, completedDb, nextSessionId, pending, rejected, call, storage, generation>>

\* DocumentEditor.handleSessionComplete: the session handed to addSession
newSessionBody(documentId, recording) ==
  [id |-> 0, documentId |-> documentId,
   sessionNumber |-> Len(getVoiceSessions(draftDb, completedDb, documentId)) + 1,
   transcript |-> recording.transcript, duration |-> recording.duration]

\* DocumentEditor.handleSessionComplete -> DocumentService.addSession, while
\* fewer than limit sessions have been recorded
AddSessionUpTo(limit, documentId, recording) ==
  /\ pending = <<>>
  /\ documentId \in AllDocIds
  /\ nextSessionId <= limit
  /\ LET r == addSession(draftDb, completedDb, nextSessionId,
                        newSessionBody(documentId, recording), 0)
     IN /\ draftDb' = r.db
        /\ nextSessionId' = nextSessionId + r.posts
  /\ UNCHANGED <<posts, completedDb, nextDocId, pending, rejected, call, storage, generation>>

AddSession(documentId, recording) == AddSessionUpTo(MaxSessions, documentId, recording)

\* SessionEditModal.handleSave: the body of the PUT request
editBody(id, appended, recordedDuration) ==
  [listedSession(id) EXCEPT !.transcript = mergedTranscript(@, appended),
                            !.duration = @ + recordedDuration]

\* SessionEditModal.handleSave -> PUT /voiceSessions/{id}
EditSession(id, appended, recordedDuration) ==
  /\ pending = <<>>
  /\ id \in AllSessionIds
  /\ Len(editBody(id, appended, recordedDuration).transcript) <= MaxTranscriptLen
  /\ draftDb' = PutVoiceSession(draftDb, id, editBody(id, appended, recordedDuration)).db
  /\ UNCHANGED <<posts, completedDb, nextDocId, nextSessionId, pending, rejected, call, storage, generation>>

\* DocumentEditor.handleSessionDelete -> DELETE /voiceSessions/{id}
DeleteSession(id) ==
  /\ pending = <<>>
  /\ id \in AllSessionIds
  /\ draftDb' = DeleteVoiceSession(draftDb, id).db
  /\ UNCHANGED <<posts, completedDb, nextDocId, nextSessionId, pending, rejected, call, storage, generation>>

\* PUT /userDocuments/{id}/status with both saves succeeding
SetStatus(documentId, status) ==
  /\ pending = <<>>
  /\ documentId \in AllDocIds
  /\ LET r == PutStatus(draftDb, completedDb, documentId, status) IN
     /\ draftDb' = r.draft
     /\ completedDb' = r.completed
  /\ UNCHANGED <<posts, nextDocId, nextSessionId, pending, rejected, call, storage, generation>>

\* GenerateContentPage.run: read the document, generate, saveGeneratedContent,
\* then PATCH requiresRegeneration: false
GenerateContent(documentId, generated) ==
  /\ pending = <<>>
  /\ documentId \in AllDocIds
  /\ LET readable == GetUserDocument(draftDb, documentId) = 200
         saved == PatchUserDocument(draftDb, documentId, savedContentBody)
         cleared == PatchUserDocument(saved.db, documentId, [requiresRegeneration |-> FALSE])
     IN /\ draftDb' = IF readable /\ generated THEN cleared.db ELSE draftDb
  /\ UNCHANGED <<posts, completedDb, nextDocId, nextSessionId, pending, rejected, call, storage, generation>>

\* ContentDisplay save -> DocumentService.updateGeneratedPlatform
UpdateGeneratedPlatform(documentId, platform, text) ==
  /\ pending = <<>>
  /\ documentId \in AllDocIds
  /\ LET r == PatchUserDocument(draftDb, documentId, platformBody(platform, text)) IN
     /\ draftDb' = r.db
  /\ UNCHANGED <<posts, completedDb, nextDocId, nextSessionId, pending, rejected, call, storage, generation>>

\* DocumentDashboard -> DocumentService.deleteDocument
DeleteDocument(documentId) ==
  /\ pending = <<>>
  /\ documentId \in AllDocIds
  /\ LET r == deleteDocument(draftDb, completedDb, documentId, 0) IN
     /\ draftDb' = r.db
  /\ UNCHANGED <<posts, completedDb, nextDocId, nextSessionId, pending, rejected, call, storage, generation>>

Next ==
  \/ \E n \in NewDocuments : CreateDocument(n.userId, n.title)
  \/ \E d \in DocIds, r \in Recordings : AddSession(d, r)
  \/ \E s \in SessionIds, a \in AppendedTranscripts : EditSession(s, a, 1)
  \/ \E s \in SessionIds : DeleteSession(s)
  \/ \E d \in DocIds, st \in Statuses : SetStatus(d, st)
  \/ \E d \in DocIds, g \in BOOLEAN : GenerateContent(d, g)
  \/ \E d \in DocIds, p \in EditedPlatforms, x \in EditedTexts : UpdateGeneratedPlatform(d, p, x)
  \/ \E d \in DocIds : DeleteDocument(d)

Spec == Init /\ [][Next]_vars

(* ------------- the status route's two saves, one at a time ------------ *)
\* PUT /userDocuments/{id}/status moving a document: both collections are
\* computed, then Promise.all starts saveDatabase and saveBlogDatabase
BeginMove(documentId, status) ==
  /\ pending = <<>>
  /\ documentId \in AllDocIds
  /\ LET r == PutStatus(draftDb, completedDb, documentId, status) IN
     /\ r.code = 200
     /\ r.saves = {"draft", "completed"}
     /\ pending' = <<[documentId |-> documentId, draft |-> r.draft,
                     completed |-> r.completed, saves |-> r.saves]>>
  /\ UNCHANGED <<posts, draftDb, completedDb, nextDocId, nextSessionId, rejected, call, storage, generation>>

\* what is left of the request once one of its saves has settled
settled(collection) ==
  IF pending[1].saves = {collection} THEN <<>>
  ELSE <<[pending[1] EXCEPT !.saves = @ \ {collection}]>>

\* hybridStorageService.saveDatabase(draftDb) settles: written, or rejected
SaveDatabase(written) ==
  /\ pending # <<>>
  /\ "draft" \in pending[1].saves
  /\ written \/ rejected < MaxRejected
  /\ draftDb' = IF written THEN pending[1].draft ELSE draftDb
  /\ rejected' = IF written THEN rejected ELSE rejected + 1
  /\ pending' = settled("draft")
  /\ UNCHANGED <<posts, completedDb, nextDocId, nextSessionId, call, storage, generation>>

\* hybridStorageService.saveBlogDatabase(completedDb) settles: written, or rejected
SaveBlogDatabase(written) ==
  /\ pending # <<>>
  /\ "completed" \in pending[1].saves
  /\ written \/ rejected < MaxRejected
  /\ completedDb' = IF written THEN pending[1].completed ELSE completedDb
  /\ rejected' = IF written THEN rejected ELSE rejected + 1
  /\ pending' = settled("completed")
  /\ UNCHANGED <<posts, draftDb, nextDocId, nextSessionId, call, storage, generation>>

\* the operations that create, fill, move and delete documents, with the
\* saves of a move taken one at a time
NextWrites ==
  \/ \E n \in NewDocuments : CreateDocument(n.userId, n.title)
  \/ \E d \in DocIds, r \in Recordings : AddSession(d, r)
  \/ \E d \in DocIds : GenerateContent(d, TRUE)
  \/ \E d \in DocIds : DeleteDocument(d)
  \/ \E d \in DocIds, st \in Statuses : BeginMove(d, st)
  \/ \E written \in BOOLEAN : SaveDatabase(written)
  \/ \E written \in BOOLEAN : SaveBlogDatabase(written)

SpecWrites == Init /\ [][NextWrites]_vars

(* ----------------- the editor of one document, in sequence ------------ *)
NextEditor ==
  \/ \E n \in NewDocuments : CreateDocument(n.userId, n.title)
  \/ \E d \in DocIds, r \in Recordings : AddSessionUpTo(MaxEditorSessions, d, r)
  \/ \E id \in 1..MaxEditorSessions : DeleteSession(id)

SpecEditor == Init /\ [][NextEditor]_vars

(* ---------------- POST /voiceSessions, step by step -------------------- *)
\* POST /voiceSessions up to its await of getDatabase: the handler holds the
\* collection it read and the session it is going to push
ReadDatabase(q, documentId, recording) ==
  /\ posts[q].at = "idle"
  /\ documentId \in AllDocIds
  /\ posts' = [posts EXCEPT ![q] = [at |-> "read", db |-> draftDb,
                                    body |-> newSessionBody(documentId, recording),
                                    id |-> nextSessionId, seq |-> 0]]
  /\ nextSessionId' = nextSessionId + 1
  /\ UNCHANGED <<draftDb, completedDb, nextDocId, pending, rejected, call, storage,
                 generation>>

\* a save that pushes the session onto the collection as it is stored now
savedAfresh(q) == PostVoiceSession(draftDb, posts[q].id, posts[q].body)

\* POST /voiceSessions, lines 35-52: what the handler saves
saved(q) == PostVoiceSession(posts[q].db, posts[q].id, posts[q].body)

\* POST /voiceSessions from saveDatabase to its 201 response
WriteDatabase(q) ==
  /\ posts[q].at = "read"
  /\ draftDb' = saved(q)
  /\ posts' = [posts EXCEPT ![q].at = "returned",
                            ![q].seq = 1 + Cardinality({o \in Requests :
                                                         posts[o].at = "returned"})]
  /\ UNCHANGED <<completedDb, nextDocId, nextSessionId, pending, rejected, call, storage,
                 generation>>

NextConcurrent ==
  \/ \E n \in NewDocuments : CreateDocument(n.userId, n.title)
  \/ \E q \in Requests, d \in DocIds, r \in Recordings : ReadDatabase(q, d, r)
  \/ \E q \in Requests : WriteDatabase(q)

SpecConcurrent == Init /\ [][NextConcurrent]_vars

(* ------------------- what the properties talk about ------------------- *)
StoredDocuments == draftDb.userDocuments \o completedDb.userDocuments

StoredSessions == draftDb.voiceSessions \o completedDb.voiceSessions

\* the record of a document as the routes find it: the draft partition first
storedDocument(documentId) == StoredDocuments[findIndex(StoredDocuments, documentId)]

\* whitespace-delimited tokens of a text: its maximal runs of non-space characters
TokenCount(t) ==
  Cardinality({i \in 1..Len(t) : ~IsSpace(t[i]) /\ (i = 1 \/ IsSpace(t[i - 1]))})

RECURSIVE sumTokens(_)
sumTokens(sessions) ==
  IF sessions = <<>> THEN 0
  ELSE TokenCount(trim(Head(sessions).transcript)) + sumTokens(Tail(sessions))

TotalsMatch(doc) ==
  LET sessions == ofDocument(StoredSessions, doc.id) IN
  /\ doc.totalSessions = Len(sessions)
  /\ doc.totalDuration = sumDuration(sessions)
  /\ doc.wordCount = sumTokens(sessions)

\* steps in which a session operation on a session of the document succeeds
AddedOk(documentId) ==
  \E r \in Recordings :
    /\ AddSession(documentId, r)
    /\ addSession(draftDb, completedDb, nextSessionId, newSessionBody(documentId, r), 0).ok

EditedOk(documentId) ==
  \E s \in AllSessionIds, a \in AppendedTranscripts :
    /\ listedSession(s).documentId = documentId
    /\ EditSession(s, a, 1)
    /\ PutVoiceSession(draftDb, s, editBody(s, a, 1)).code = 200

DeletedOk(documentId) ==
  \E s \in AllSessionIds :
    /\ listedSession(s).documentId = documentId
    /\ DeleteSession(s)
    /\ DeleteVoiceSession(draftDb, s).code = 200

SessionOperationOk(documentId) ==
  AddedOk(documentId) \/ EditedOk(documentId) \/ DeletedOk(documentId)

(* ----------------------------- C1 ------------------------------------- *)
\* C1: every successful session add, edit or delete ends in a state in which
\* each stored document's totalSessions, totalDuration and wordCount equal the
\* count, the summed duration and the summed token count of the sessions
\* stored for it.
C1_AggregateConsistency ==
  [][(\E d \in AllDocIds : SessionOperationOk(d))
       => \A i \in 1..Len(StoredDocuments') : TotalsMatch(StoredDocuments[i])']_vars

(* ----------------------------- C2 ------------------------------------- *)
\* C2: every stored document whose status is "completed" holds a saved
\* generated-content bundle.
C2_CompletedHasContent ==
  \A i \in 1..Len(StoredDocuments) :
    StoredDocuments[i].status = "completed"
      => StoredDocuments[i].generatedContent # NoContent

(* ----------------------------- C3 ------------------------------------- *)
\* C3: in every reachable state, a request to set a stored document's status
\* to "completed" is answered 400 and saves neither collection when the
\* document's hasGeneratedContent is false, and is answered 200 with the
\* document stored as completed when it is true, whatever requiresRegeneration is.
C3_CompletedNeedsContent ==
  \A d \in AllDocIds :
    LET r == PutStatus(draftDb, completedDb, d, "completed")
        at == findIndex(r.completed.userDocuments, d)
    IN IF storedDocument(d).hasGeneratedContent
       THEN /\ r.code = 200
            /\ at # 0
            /\ r.completed.userDocuments[at].status = "completed"
       ELSE /\ r.code = 400
            /\ r.saves = {}
            /\ r.draft = draftDb
            /\ r.completed = completedDb

\* a document was completed while its content was marked stale, and another
\* document without generated content is stored, still a draft
C3_Witness ==
  /\ \E i \in 1..Len(completedDb.userDocuments) :
       /\ completedDb.userDocuments[i].status = "completed"
       /\ completedDb.userDocuments[i].hasGeneratedContent
       /\ completedDb.userDocuments[i].requiresRegeneration
  /\ \E i \in 1..Len(draftDb.userDocuments) :
       /\ ~draftDb.userDocuments[i].hasGeneratedContent
       /\ draftDb.userDocuments[i].status = "draft"

(* ----------------------------- C4 ------------------------------------- *)
\* C4: in every reachable state, a successful status request for a stored
\* document leaves the document and all its sessions stored in the destination
\* partition only, with exactly one record of the document there, and the
\* document listed under the destination status only.
C4_OnlyInDestination ==
  \A d \in AllDocIds, st \in Statuses :
    LET r == PutStatus(draftDb, completedDb, d, st)
        destination == IF st = "completed" THEN r.completed ELSE r.draft
        other == IF st = "completed" THEN r.draft ELSE r.completed
        owner == storedDocument(d).userId
    IN r.code = 200 =>
         /\ Cardinality({i \in 1..Len(destination.userDocuments) :
                           destination.userDocuments[i].id = d}) = 1
         /\ findIndex(other.userDocuments, d) = 0
         /\ ofDocument(other.voiceSessions, d) = <<>>
         /\ findIndex(listDocuments(r.draft, r.completed, owner, st), d) # 0
         /\ \A o \in Statuses \ {st} :
              findIndex(listDocuments(r.draft, r.completed, owner, o), d) = 0

(* ----------------------------- C5 ------------------------------------- *)
\* C5: a create request whose title equals, ignoring case, the title of a
\* document the same owner has in either partition is rejected and stores
\* nothing; no owner ever has two documents whose titles are equal ignoring case.
C5_TitleUniqueness ==
  /\ \A n \in NewDocuments :
       (\E i \in 1..Len(StoredDocuments) :
          /\ StoredDocuments[i].userId = n.userId
          /\ toLowerCase(StoredDocuments[i].title) = toLowerCase(n.title))
       => LET r == PostUserDocument(draftDb, nextDocId, n.userId, n.title)
          IN r.code = 400 /\ r.db = draftDb
  /\ \A i, j \in 1..Len(StoredDocuments) :
       (i # j /\ StoredDocuments[i].userId = StoredDocuments[j].userId)
       => toLowerCase(StoredDocuments[i].title) # toLowerCase(StoredDocuments[j].title)

(* ----------------------------- C6 ------------------------------------- *)
\* C6: every successful session add, edit or delete leaves the parent document
\* with requiresRegeneration true, hasGeneratedContent as it was and the
\* generated-content bundle as it was.
C6_InvalidationRule ==
  [][\A d \in AllDocIds :
       SessionOperationOk(d) =>
         /\ storedDocument(d)'.requiresRegeneration
         /\ storedDocument(d)'.hasGeneratedContent = storedDocument(d).hasGeneratedContent
         /\ storedDocument(d)'.generatedContent = storedDocument(d).generatedContent]_vars

(* ----------------------------- C7 ------------------------------------- *)
\* C7: in every state, between the two saves of a move and after a rejected
\* save included, no document is stored in both partitions and a document
\* being moved is stored in one of them.
C7_ExactlyOnePartition ==
  /\ idsOf(draftDb.userDocuments) \cap idsOf(completedDb.userDocuments) = {}
  /\ pending # <<>> => pending[1].documentId \in AllDocIds

(* ----------------------------- C8 ------------------------------------- *)
\* C8: in every state, a stored session lies in the partition that holds its
\* document: no session is in the draft partition while its document is in the
\* completed one, nor the other way round.
C8_SessionsFollowDocument ==
  /\ \A i \in 1..Len(draftDb.voiceSessions) :
       draftDb.voiceSessions[i].documentId \notin idsOf(completedDb.userDocuments)
  /\ \A i \in 1..Len(completedDb.voiceSessions) :
       completedDb.voiceSessions[i].documentId \notin idsOf(draftDb.userDocuments)

(* ----------------------------- C9 ------------------------------------- *)
\* the text a bundle holds for a platform, "" when it holds none
slot(content, platform) ==
  IF platform \in DOMAIN content THEN content[platform] ELSE ""

\* C9: every successful updateGeneratedPlatform(document, platform, text)
\* leaves the bundle's text for every other platform as it was.
C9_OtherPlatformsKept ==
  [][\A d \in AllDocIds, p \in EditedPlatforms, x \in EditedTexts :
       (/\ UpdateGeneratedPlatform(d, p, x)
        /\ PatchUserDocument(draftDb, d, platformBody(p, x)).code = 200)
       => \A q \in Platforms \ {p} :
            slot(storedDocument(d)'.generatedContent, q)
              = slot(storedDocument(d).generatedContent, q)]_vars

(* ----------------------------- C10 ------------------------------------ *)
\* C10: every successful deleteDocument(document) ends in a state in which
\* neither partition stores the document or any session of it.
C10_DeleteRemovesEverything ==
  [][\A d \in AllDocIds :
       (DeleteDocument(d) /\ deleteDocument(draftDb, completedDb, d, 0).ok)
       => /\ d \notin AllDocIds'
          /\ ofDocument(StoredSessions', d) = <<>>]_vars

(* ------------- DocumentService reads inside retryWithBackoff ---------- *)
storeVars == <<draftDb, completedDb, nextDocId, nextSessionId, pending, rejected, storage,
               generation, posts>>

\* the public read calls and the number of retryWithBackoff wrappers around
\* the requests of each: getCombinedTranscript wraps getDocumentWithSessions,
\* which is wrapped itself
wrappers(op) == IF op = "getCombinedTranscript" THEN 2 ELSE 1

ReadOps == {"getUserDocuments", "getDocumentWithSessions", "getCombinedTranscript"}

\* what can make a request of a read fail although the data is stored: a
\* stale 404 / 500 answer, or fetch itself rejecting (TypeError: Failed to fetch)
Faults == {"none", "status", "network"}

NoError == [message |-> "", status |-> 0]

\* the error one run of the wrapped operation throws, NoError when it succeeds
readError(op, target, fault) ==
  IF fault = "network" THEN [message |-> "Failed to fetch", status |-> 0]
  ELSE IF op = "getUserDocuments"
       THEN IF fault = "status"
            THEN [message |-> "Failed to fetch user documents", status |-> 500]
            ELSE NoError
       ELSE IF GetUserDocument(draftDb, target) # 200 \/ fault = "status"
            THEN [message |-> "Failed to fetch document", status |-> 404]
            ELSE NoError

\* errorMessage.includes('404') || errorMessage.includes('Failed to fetch document') || ...
isRetryableError(error) ==
  \/ error.status = 404
  \/ error.message \in {"Failed to fetch document", "Failed to fetch document sessions",
                        "Failed to fetch user documents",
                        "Failed to fetch sessions for stats update",
                        "Failed to fetch document for stats update"}

\* a delay that grows by baseDelay per retry
linearDelay(retryCount) == baseDelay * (retryCount + 1)

\* Math.min(baseDelay * Math.pow(2, retryCount), maxDelay)
backoffDelay(retryCount) ==
  IF baseDelay * 2^retryCount < maxDelay THEN baseDelay * 2^retryCount ELSE maxDelay

\* the catch block of retryWithBackoff at wrapper `level` (1 is the innermost):
\* retry after a delay, or throw to the wrapper around it
RECURSIVE caught(_, _, _)
caught(c, error, level) ==
  IF isRetryableError(error) /\ c.retryCounts[level] < maxRetries
  THEN [c EXCEPT !.retryCounts = [i \in 1..Len(@) |->
                                    IF i < level THEN 0
                                    ELSE IF i = level THEN @[i] + 1 ELSE @[i]],
                 !.delays = Append(@, backoffDelay(c.retryCounts[level]))]
  ELSE IF level < Len(c.retryCounts) THEN caught(c, error, level + 1)
  ELSE [c EXCEPT !.status = "error", !.error = error]

\* a component calls one of the reads
BeginRead(op, target) ==
  /\ call.status # "running"
  /\ call' = [NoCall EXCEPT !.op = op, !.target = target,
                            !.retryCounts = [i \in 1..wrappers(op) |-> 0],
                            !.status = "running"]
  /\ UNCHANGED storeVars

\* the wrapped operation runs once: it returns, or its error is caught
AttemptRead(fault) ==
  /\ call.status = "running"
  /\ call.op \in ReadOps
  /\ LET error == readError(call.op, call.target, fault)
         ran == [call EXCEPT !.attempts = @ + 1]
     IN call' = IF error = NoError THEN [ran EXCEPT !.status = "ok"]
                ELSE caught(ran, error, 1)
  /\ UNCHANGED storeVars

(* ------------------- createDocumentWithAccess -------------------------- *)
\* a wait that grows by accessBaseDelay per failed poll
accessDelayLinear(attempts) == accessBaseDelay * attempts

\* baseDelay * Math.pow(2, attempts - 1)
accessDelay(attempts) == accessBaseDelay * 2^(attempts - 1)

\* createDocumentWithAccess up to the first poll: the POST, sent outside any
\* retry wrapper, then either the error or the created record to wait for
BeginCreateWithAccess(userId, title) ==
  /\ pending = <<>>
  /\ call.status # "running"
  /\ nextDocId <= MaxDocs
  /\ LET r == PostUserDocument(draftDb, nextDocId, userId, title) IN
     /\ draftDb' = r.db
     /\ nextDocId' = IF r.code = 201 THEN nextDocId + 1 ELSE nextDocId
     /\ call' = IF r.code = 201
                THEN [NoCall EXCEPT !.op = "createDocumentWithAccess", !.posts = 1,
                                    !.target = nextDocId, !.created = nextDocId,
                                    !.status = "running"]
                ELSE [NoCall EXCEPT !.op = "createDocumentWithAccess", !.posts = 1,
                                    !.status = "error",
                                    !.error = [message |-> "Failed to create document",
                                               status |-> r.code]]
  /\ UNCHANGED <<posts, completedDb, nextSessionId, pending, rejected, storage, generation>>

\* one turn of the while loop: getDocumentWithSessions(createdDocument.id)
\* returns, or throws and the loop waits or gives up
PollCreated(fault) ==
  /\ call.status = "running"
  /\ call.op = "createDocumentWithAccess"
  /\ LET readable == readError("getDocumentWithSessions", call.target, fault) = NoError
         failed == [call EXCEPT !.attempts = @ + 1]
     IN call' = IF readable THEN [call EXCEPT !.status = "ok"]
                ELSE IF failed.attempts >= maxAttempts THEN [failed EXCEPT !.status = "ok"]
                ELSE [failed EXCEPT !.delays = Append(@, accessDelay(failed.attempts))]
  /\ UNCHANGED storeVars

NextReads ==
  \/ \E n \in NewDocuments : CreateDocument(n.userId, n.title)
  \/ \E d \in DocIds, r \in Recordings : AddSession(d, r)
  \/ \E d \in DocIds : DeleteDocument(d)
  \/ \E op \in ReadOps, t \in DocIds : BeginRead(op, t)
  \/ \E f \in Faults : AttemptRead(f)
  \/ \E n \in NewDocuments : BeginCreateWithAccess(n.userId, n.title)
  \/ \E f \in Faults : PollCreated(f)

SpecReads == Init /\ [][NextReads]_vars

(* ----------------------------- C11 ------------------------------------ *)
\* the documented backoff: the i-th delay (from 0) is min(500 * 2^i, 2000) ms
Schedule(k) ==
  [i \in 1..k |-> IF 500 * 2^(i - 1) < 2000 THEN 500 * 2^(i - 1) ELSE 2000]

\* C11: a read whose wrapped operation failed k <= 3 times with a retryable
\* error and then succeeded returns its result with no error after exactly k
\* delays, the i-th (from 0) being min(500 * 2^i, 2000) ms; two failures give
\* the delays 500, 1000; while it runs every failure so far was followed by one
\* delay, and it gives up on a retryable error only after more than 3 failures.
C11_RetryMasking ==
  call.op \in ReadOps =>
    /\ (call.status = "ok" /\ call.attempts - 1 <= 3)
         => call.delays = Schedule(call.attempts - 1) /\ call.error = NoError
    /\ (call.status = "ok" /\ call.attempts = 3) => call.delays = <<500, 1000>>
    /\ call.status = "running" => Len(call.delays) = call.attempts
    /\ (call.status = "error" /\ isRetryableError(call.error)) => call.attempts > 3

\* a read returned its result after three retryable failures and three delays
C11_Witness ==
  /\ call.op \in ReadOps
  /\ call.status = "ok"
  /\ call.attempts = 4
  /\ call.delays = <<500, 1000, 2000>>

(* ----------------------------- C12 ------------------------------------ *)
\* C12: one public read call runs its read at most 4 times (1 attempt and 3
\* retries); after the 4th failure it has ended, and a call that ended in an
\* error surfaces the error of the read.
C12_RetryBound ==
  call.op \in ReadOps =>
    /\ call.attempts <= 4
    /\ call.status = "running" => call.attempts < 4
    /\ call.status = "error" => call.error # NoError

(* ----------------------------- C13 ------------------------------------ *)
\* C13: one addSession call sends its POST at most once: it takes at most one
\* session id and stores at most one more session.
C13_WritesSentOnce ==
  [][\A d \in DocIds, r \in Recordings :
       AddSession(d, r) =>
         /\ nextSessionId' <= nextSessionId + 1
         /\ Len(StoredSessions') <= Len(StoredSessions) + 1]_vars

emptyDb == [users |-> <<>>, userDocuments |-> <<>>, voiceSessions |-> <<>>]

\* a collection with something in it
SomeData == [users |-> <<>>, userDocuments |-> <<[id |-> 1, userId |-> 1]>>,
             voiceSessions |-> <<[id |-> 1, documentId |-> 1]>>]

SavedData == {emptyDb, SomeData}

Null == [null |-> TRUE]

threw(message, files) == [threw |-> TRUE, value |-> [message |-> message], files |-> files]

returned(value, files) == [threw |-> FALSE, value |-> value, files |-> files]

\* db?.userDocuments || [] and the like
arrayOf(data, field) == IF data = Null THEN <<>> ELSE data[field]

\* S3Service.downloadJson: a missing key is not an error, it gives null
downloadJson(files, key, fails) ==
  IF fails THEN threw("Failed to download from S3", files)
  ELSE IF files[key] = Absent THEN returned(Null, files)
  ELSE returned(files[key][1], files)

\* S3Service.uploadJson
uploadJson(files, key, data, fails) ==
  IF fails THEN threw("Failed to upload to S3", files)
  ELSE returned([ok |-> TRUE], [files EXCEPT ![key] = <<data>>])

\* S3Service.getBlogDatabase: creates an empty blog.json when there is none
s3GetBlogDatabase(files, fails) ==
  LET blogData == downloadJson(files, "blog", fails) IN
  IF blogData.threw THEN blogData
  ELSE IF blogData.value = Null
       THEN returned(emptyDb, uploadJson(files, "blog", emptyDb, fails).files)
       ELSE blogData

\* the operations of S3Service
s3Call(op, files, data, fails) ==
  LET db == downloadJson(files, "db", fails)
      blogDb == s3GetBlogDatabase(files, fails)
  IN
  CASE op = "getDatabase" -> db
    [] op = "saveDatabase" -> uploadJson(files, "db", data, fails)
    [] op = "getBlogDatabase" -> blogDb
    [] op = "saveBlogDatabase" -> uploadJson(files, "blog", data, fails)
    [] op = "getUserDocuments" ->
         IF db.threw THEN db
         ELSE returned([list |-> SelectSeq(arrayOf(db.value, "userDocuments"),
                                           LAMBDA d : d.userId = 1)], files)
    [] op = "getUsers" ->
         IF db.threw THEN db ELSE returned([list |-> arrayOf(db.value, "users")], files)
    [] op = "getCompletedDocuments" ->
         IF blogDb.threw THEN blogDb
         ELSE returned([list |-> SelectSeq(arrayOf(blogDb.value, "userDocuments"),
                                           LAMBDA d : d.userId = 1)], blogDb.files)
    [] op = "getVoiceSessions" ->
         IF db.threw THEN db
         ELSE IF blogDb.threw THEN blogDb
         ELSE returned([list |-> SelectSeq(arrayOf(db.value, "voiceSessions"),
                                           LAMBDA v : v.documentId = 1)
                                 \o SelectSeq(arrayOf(blogDb.value, "voiceSessions"),
                                              LAMBDA v : v.documentId = 1)], blogDb.files)

\* LocalFileService.getDatabase: any read error, a missing db.json included, throws
localGetDatabase(files, fails) ==
  IF fails \/ files.db = Absent THEN threw("Failed to read local database", files)
  ELSE returned(files.db[1], files)

\* LocalFileService.saveDatabase / saveBlogDatabase
writeFile(files, key, data, fails) ==
  IF fails THEN threw("Failed to save local database", files)
  ELSE returned([ok |-> TRUE], [files EXCEPT ![key] = <<data>>])

\* LocalFileService.getBlogDatabase: creates an empty blog.json on ENOENT
localGetBlogDatabase(files, fails) ==
  IF fails THEN threw("Failed to read local blog database", files)
  ELSE IF files.blog = Absent
       THEN returned(emptyDb, writeFile(files, "blog", emptyDb, fails).files)
       ELSE returned(files.blog[1], files)

\* the operations of LocalFileService
localCall(op, files, data, fails) ==
  LET db == localGetDatabase(files, fails)
      blogDb == localGetBlogDatabase(files, fails)
  IN
  CASE op = "getDatabase" -> db
    [] op = "saveDatabase" -> writeFile(files, "db", data, fails)
    [] op = "getBlogDatabase" -> blogDb
    [] op = "saveBlogDatabase" -> writeFile(files, "blog", data, fails)
    [] op = "getUserDocuments" ->
         IF db.threw THEN db
         ELSE returned([list |-> SelectSeq(arrayOf(db.value, "userDocuments"),
                                           LAMBDA d : d.userId = 1)], files)
    [] op = "getUsers" ->
         IF db.threw THEN db ELSE returned([list |-> arrayOf(db.value, "users")], files)
    [] op = "getCompletedDocuments" ->
         IF blogDb.threw THEN blogDb
         ELSE returned([list |-> SelectSeq(arrayOf(blogDb.value, "userDocuments"),
                                           LAMBDA d : d.userId = 1)], blogDb.files)
    [] op = "getVoiceSessions" ->
         \* Promise.all([getDatabase(), getBlogDatabase().catch(() => null)])
         IF db.threw THEN threw(db.value.message, blogDb.files)
         ELSE returned([list |-> SelectSeq(arrayOf(db.value, "voiceSessions"),
                                           LAMBDA v : v.documentId = 1)
                                 \o SelectSeq(arrayOf(IF blogDb.threw THEN Null
                                                      ELSE blogDb.value, "voiceSessions"),
                                              LAMBDA v : v.documentId = 1)], blogDb.files)

StorageOps == {"getDatabase", "saveDatabase", "getUserDocuments", "getVoiceSessions",
               "getUsers", "getBlogDatabase", "saveBlogDatabase", "getCompletedDocuments"}

\* shouldUseS3
shouldUseS3(useS3Local, isProduction) == useS3Local \/ isProduction

\* a service that also falls back when the object store has nothing
fallsBackOnNull(outcome) == outcome.threw \/ outcome.value = Null

\* try { return await this.s3Service.op() } catch (error) { ... localService.op() }
fallsBack(outcome) == outcome.threw

\* what a backend call is remembered by: its backend, how it ended, whether the
\* collection it reads was missing, whether the backend was failing
entry(backend, op, files, fails, outcome) ==
  [backend |-> backend, threw |-> outcome.threw, value |-> outcome.value,
   missing |-> \/ op = "getDatabase" /\ files.db = Absent
               \/ op = "getBlogDatabase" /\ files.blog = Absent,
   fault |-> fails]

\* one operation of HybridStorageService
hybridCall(st, op, data, s3Fails, localFails) ==
  LET first == s3Call(op, st.s3, data, s3Fails)
      second == localCall(op, st.local, data, localFails)
      result(outcome) == [threw |-> outcome.threw, value |-> outcome.value]
      argument == IF op \in {"saveDatabase", "saveBlogDatabase"} THEN <<data>> ELSE <<>>
  IN
  IF st.useS3
  THEN IF fallsBack(first)
       THEN [st EXCEPT !.s3 = first.files, !.local = second.files, !.op = op, !.saved = argument,
                       !.calls = <<entry("s3", op, st.s3, s3Fails, first),
                                   entry("local", op, st.local, localFails, second)>>,
                       !.result = result(second)]
       ELSE [st EXCEPT !.s3 = first.files, !.op = op, !.saved = argument,
                       !.calls = <<entry("s3", op, st.s3, s3Fails, first)>>,
                       !.result = result(first)]
  ELSE [st EXCEPT !.local = second.files, !.op = op, !.saved = argument,
                  !.calls = <<entry("local", op, st.local, localFails, second)>>,
                  !.result = result(second)]

\* the service is constructed under one of the flag settings
InitStorage ==
  /\ draftDb = EmptyDb
  /\ completedDb = EmptyDb
  /\ nextDocId = 1
  /\ nextSessionId = 1
  /\ pending = <<>>
  /\ rejected = 0
  /\ call = NoCall
  /\ generation = NoGeneration
  /\ posts = NoPosts
  /\ storage \in {[NoStorage EXCEPT !.useS3Local = f, !.production = p,
                                   !.useS3 = shouldUseS3(f, p)] : f, p \in BOOLEAN}

HybridOperation(op, data, s3Fails, localFails) ==
  /\ storage' = hybridCall(storage, op, data, s3Fails, localFails)
  /\ UNCHANGED <<posts, draftDb, completedDb, nextDocId, nextSessionId, pending, rejected, call, generation>>

NextStorage ==
  \E op \in StorageOps, data \in SavedData, s3Fails \in BOOLEAN, localFails \in BOOLEAN :
    HybridOperation(op, data, s3Fails, localFails)

SpecStorage == InitStorage /\ [][NextStorage]_vars

(* ----------------------------- C15 ------------------------------------ *)
\* C15: the object store is the selected backend exactly when the use-cloud
\* flag is set or the runtime is production; with it selected, every operation
\* calls the object store first and calls the local backend, once, exactly when
\* that call threw, and returns what the last call returned or threw; with the
\* local backend selected, an operation calls the local backend once and the
\* object store never.
C15_FallbackOnce ==
  /\ storage.useS3 = (storage.useS3Local \/ storage.production)
  /\ storage.op # "none" =>
       /\ storage.result = [threw |-> storage.calls[Len(storage.calls)].threw,
                            value |-> storage.calls[Len(storage.calls)].value]
       /\ IF storage.useS3
          THEN /\ storage.calls[1].backend = "s3"
               /\ Len(storage.calls) = (IF storage.calls[1].threw THEN 2 ELSE 1)
               /\ Len(storage.calls) = 2 => storage.calls[2].backend = "local"
          ELSE /\ Len(storage.calls) = 1
               /\ storage.calls[1].backend = "local"
               /\ storage.s3 = NoStorage.s3

\* with the object store selected, its call threw and the local backend, called
\* once after it, served the request
C15_Witness ==
  /\ storage.useS3
  /\ Len(storage.calls) = 2
  /\ storage.calls[1].backend = "s3" /\ storage.calls[1].threw
  /\ storage.calls[2].backend = "local" /\ ~storage.calls[2].threw
  /\ ~storage.result.threw

(* ----------------------------- C16 ------------------------------------ *)
\* C16: a read of the draft or of the completed collection that finds the
\* collection missing on a working backend does not throw, returns the empty
\* structure, and leaves the collection created, empty, on that backend.
C16_EmptyInitialization ==
  \A i \in 1..Len(storage.calls) :
    (storage.calls[i].missing /\ ~storage.calls[i].fault) =>
      /\ ~storage.calls[i].threw
      /\ storage.calls[i].value = emptyDb
      /\ LET files == IF storage.calls[i].backend = "s3" THEN storage.s3 ELSE storage.local
         IN IF storage.op = "getDatabase" THEN files.db = <<emptyDb>>
            ELSE files.blog = <<emptyDb>>

(* ---------------- content generation: text functions ------------------ *)
max == 280
target == 240
maxTurns == 10
chunkSize == 8000

Rep(c, n) == [i \in 1..n |-> c]

\* String.prototype.includes
includes(t, pat) ==
  \E i \in 0..(Len(t) - Len(pat)) : SubSeq(t, i + 1, i + Len(pat)) = pat

endsWith(t, pat) ==
  Len(t) >= Len(pat) /\ SubSeq(t, Len(t) - Len(pat) + 1, Len(t)) = pat

\* String.prototype.slice(from, to) with 0-based from and exclusive to
slice(t, from, to) == SubSeq(t, from + 1, IF to < Len(t) THEN to ELSE Len(t))

lowerCase(t) ==
  [i \in 1..Len(t) |-> IF t[i] = "I" THEN "i" ELSE IF t[i] = "T" THEN "t" ELSE t[i]]

RefusalPhrases ==
  { <<"i", "'", "m", " ", "s", "o", "r", "r", "y">>,
    <<"i", " ", "a", "m", " ", "s", "o", "r", "r", "y">>,
    <<"c", "a", "n", "'", "t", " ", "a", "s", "s", "i", "s", "t">>,
    <<"c", "a", "n", "n", "o", "t", " ", "a", "s", "s", "i", "s", "t">>,
    <<"n", "o", "t", " ", "a", "b", "l", "e", " ", "t", "o", " ", "h", "e", "l", "p">>,
    <<"i", " ", "c", "a", "n", "n", "o", "t">>,
    <<"u", "n", "a", "b", "l", "e", " ", "t", "o", " ", "c", "o", "m", "p", "l", "y">> }

looksLikeRefusal(text) == \E phrase \in RefusalPhrases : includes(lowerCase(text), phrase)

\* the index of the first character of t at or after from that satisfies Test, 0 if none
firstIndex(t, from, Test(_)) ==
  IF \E i \in from..Len(t) : Test(t[i])
  THEN CHOOSE i \in from..Len(t) : Test(t[i]) /\ \A j \in from..(i - 1) : ~Test(t[j])
  ELSE 0

IsNewline(c) == c = "\n"
NotNewline(c) == c # "\n"
NotSpace(c) == ~IsSpace(c)
IsDigit(c) == c \in {"0", "1", "2", "3", "4", "5", "6", "7", "8", "9"}
EndsSentence(c) == c \in {".", "!", "?"}

\* replace(/\n{2,}/g, '\n')
RECURSIVE collapseNewlines(_)
collapseNewlines(t) ==
  LET i == firstIndex(t, 1, IsNewline) IN
  IF i = 0 THEN t
  ELSE LET j == firstIndex(t, i, NotNewline)
           rest == IF j = 0 THEN <<>> ELSE SubSeq(t, j, Len(t))
       IN SubSeq(t, 1, i) \o collapseNewlines(rest)

\* split(/\n+/).filter(Boolean)
RECURSIVE splitLines(_)
splitLines(t) ==
  LET i == firstIndex(t, 1, IsNewline) IN
  IF t = <<>> THEN <<>>
  ELSE IF i = 0 THEN <<t>>
  ELSE LET j == firstIndex(t, i, NotNewline)
           rest == IF j = 0 THEN <<>> ELSE SubSeq(t, j, Len(t))
       IN (IF i = 1 THEN <<>> ELSE <<SubSeq(t, 1, i - 1)>>) \o splitLines(rest)

\* split(/(?<=[.!?])\s+/): cut at every run of whitespace that follows . ! or ?
RECURSIVE splitSentences(_)
splitSentences(para) ==
  LET cuts == {i \in 2..Len(para) : IsSpace(para[i]) /\ EndsSentence(para[i - 1])} IN
  IF cuts = {} THEN <<para>>
  ELSE LET i == CHOOSE c \in cuts : \A d \in cuts : c <= d
           j == firstIndex(para, i, NotSpace)
           rest == IF j = 0 THEN <<>> ELSE SubSeq(para, j, Len(para))
       IN <<SubSeq(para, 1, i - 1)>> \o splitSentences(rest)

\* pushCurrent: the chunks after it
pushCurrent(chunks, current) ==
  IF trim(current) # <<>> THEN Append(chunks, trim(current)) ELSE chunks

\* the hard wrap of a sentence longer than target, from index i on
RECURSIVE hardWrap(_, _)
hardWrap(s, i) ==
  IF i >= Len(s) THEN <<>>
  ELSE <<trim(slice(s, i, i + target))>> \o hardWrap(s, i + target)

\* the loop over the sentences of one paragraph
RECURSIVE packSentences(_, _, _)
packSentences(sentences, current, chunks) ==
  IF sentences = <<>> THEN [current |-> current, chunks |-> chunks]
  ELSE LET s == Head(sentences)
           joined == IF current # <<>> THEN current \o <<" ">> \o s ELSE s
           pushed == IF current # <<>> THEN pushCurrent(chunks, current) ELSE chunks
       IN IF Len(joined) <= target
          THEN packSentences(Tail(sentences), joined, chunks)
          ELSE IF Len(s) > target
               THEN packSentences(Tail(sentences), <<>>, pushed \o hardWrap(s, 0))
               ELSE packSentences(Tail(sentences), s, pushed)

\* the loop over the paragraphs
RECURSIVE packParas(_, _)
packParas(paras, chunks) ==
  IF paras = <<>> THEN chunks
  ELSE LET packed == packSentences(splitSentences(Head(paras)), <<>>, chunks) IN
       packParas(Tail(paras),
                 IF packed.current # <<>> THEN pushCurrent(packed.chunks, packed.current)
                 ELSE packed.chunks)

\* the decimal digits of a number, as `${i}` prints it
RECURSIVE digits(_)
digits(n) ==
  LET d == <<"0", "1", "2", "3", "4", "5", "6", "7", "8", "9">>[(n % 10) + 1] IN
  IF n < 10 THEN <<d>> ELSE digits(n \div 10) \o <<d>>

\* the thread emoji and the pointing-down emoji, two UTF-16 code units each
leadMarker == <<"D83E", "DDF5">>
keepReading == <<"D83D", "DC47">>

\* "(i/n)"
indexSuffix(i, n) == <<"(">> \o digits(i) \o <<"/">> \o digits(n) \o <<")">>

\* if (decorated.length > max) decorated = decorated.slice(0, max)
clamped(t) == IF Len(t) > max THEN slice(t, 0, max) ELSE t

decorated(text, i, n) ==
  clamped(IF n > 1
          THEN IF i = 1
               THEN leadMarker \o <<" ">> \o text \o <<" ">> \o indexSuffix(i, n)
                      \o <<" ">> \o keepReading
               ELSE text \o <<" ">> \o indexSuffix(i, n)
          ELSE text)

splitToTweets(source) ==
  LET clean == trim(collapseNewlines(trimEnd(source)))
      chunks == packParas(splitLines(clean), <<>>)
      n == IF Len(chunks) > 1 THEN Len(chunks) ELSE 1
  IN [idx \in 1..Len(chunks) |-> decorated(chunks[idx], idx, n)]

\* replace(/^\d+\.?\)?\s+/, '')
unnumbered(l) ==
  LET a == firstIndex(l, 1, LAMBDA c : ~IsDigit(c))
      b == IF a # 0 /\ l[a] = "." THEN a + 1 ELSE a
      c == IF b # 0 /\ b <= Len(l) /\ l[b] = ")" THEN b + 1 ELSE b
      e == firstIndex(l, c, NotSpace)
  IN IF a <= 1 \/ c > Len(l) \/ ~IsSpace(l[c]) THEN l
     ELSE IF e = 0 THEN <<>> ELSE SubSeq(l, e, Len(l))

\* generateTwitterThread, lines 582-583: the tweets read from the model's text
parsedThread(text) ==
  LET lines == SelectSeq([i \in 1..Len(splitLines(text)) |-> trim(splitLines(text)[i])],
                         LAMBDA l : l # <<>>)
      stripped == SelectSeq([i \in 1..Len(lines) |-> unnumbered(lines[i])],
                            LAMBDA t : t # <<>>)
  IN [i \in 1..Len(stripped) |-> clamped(stripped[i])]

(* ---------------- content generation: the model calls ----------------- *)
\* 'Error generating content' and 'Error refining content'
errorGenerating ==
  <<"E", "r", "r", "o", "r", " ", "g", "e", "n", "e", "r", "a", "t", "i", "n", "g", " ",
    "c", "o", "n", "t", "e", "n", "t">>

errorRefining ==
  <<"E", "r", "r", "o", "r", " ", "r", "e", "f", "i", "n", "i", "n", "g", " ",
    "c", "o", "n", "t", "e", "n", "t">>

\* the messages a failed model request can carry
ErrorMessages ==
  { <<"m", "a", "x", "i", "m", "u", "m", " ", "c", "o", "n", "t", "e", "x", "t">>,
    <<"T", "o", "k", "e", "n", " ", "l", "i", "m", "i", "t">>,
    <<"t", "i", "m", "e", "o", "u", "t">> }

FinishReasons == {"stop", "length", "content_filter"}

\* the texts a model response can carry, by the request it answers
\* the text the model answers round turn of a continuation loop with, when it
\* answers with any: one letter per round
roundText(turn) == <<<<"a", "b", "c", "d", "e", "f", "g", "h", "i", "j">>[turn + 1]>>

BlogParts(turn) == {<<>>, roundText(turn)}

Posts ==
  { <<>>, <<"\n">>, <<"a", ".">>, <<"a", "\n", "\n", "b">>, Rep("a", target + 1),
    Rep("a", 200) \o <<".", " ">> \o Rep("b", 100) \o <<".">> }

ShortTexts == {<<>>, <<"t">>}

ThreadTexts ==
  { <<>>, <<"\n">>, <<"I", "'", "m", " ", "s", "o", "r", "r", "y">>,
    <<"1", ".", " ", "a", "\n", "2", ")", " ", "b">> }

Contents(kind, turn) ==
  CASE kind = "blog" -> BlogParts(turn)
    [] kind = "linkedin" -> Posts
    [] kind = "thread" -> ThreadTexts
    [] OTHER -> ShortTexts

Failure(message) == [failed |-> TRUE, content |-> <<>>, finish |-> "", message |-> message]

Completion(content, finish) ==
  [failed |-> FALSE, content |-> content, finish |-> finish, message |-> <<>>]

Responses(kind, turn) ==
  {Failure(m) : m \in ErrorMessages}
    \cup {Completion(c, f) : c \in Contents(kind, turn), f \in FinishReasons}

\* sessions.sort((a, b) => a.sessionNumber - b.sessionNumber)
\*   .map(s => s.transcript).join(' ')
RECURSIVE joined(_, _)
joined(parts, separator) ==
  IF parts = <<>> THEN <<>>
  ELSE IF Len(parts) = 1 THEN parts[1]
  ELSE parts[1] \o separator \o joined(Tail(parts), separator)

combinedTranscript(sessions) ==
  LET sorted == SortSeq(sessions, LAMBDA a, b : a.sessionNumber < b.sessionNumber)
  IN joined([i \in 1..Len(sorted) |-> sorted[i].transcript], <<" ">>)

\* a role-tagged message of a model request: kind names the template of its
\* content, text the text put into it, note the "part i of n" a chunk is told,
\* current the saved output a refinement is given (none: <<>>)
chatMessage(role, kind, text) ==
  [role |-> role, kind |-> kind, text |-> text, note |-> <<>>, current |-> <<>>]

systemInstruction == chatMessage("system", "instruction", <<>>)

\* generateContent: baseMessages
baseMessages(platform, originalText) ==
  <<systemInstruction, chatMessage("user", platform, originalText)>>

\* chatCompleteWithContinuation, line 500: what a further round adds to convo
continuation(part) ==
  <<chatMessage("assistant", "part", part), chatMessage("user", "continue", <<>>)>>

\* chunks that start one character early
chunkWithOverlap(originalText, i) ==
  slice(originalText, (i - 1) * (chunkSize - 1), (i - 1) * (chunkSize - 1) + chunkSize)

\* generateBlogByChunks: chunk i of the original text, i from 1
chunkOf(originalText, i) == slice(originalText, (i - 1) * chunkSize, i * chunkSize)

\* generateBlogByChunks: the messages of the first request for chunk i of total
chunkMessages(originalText, i, total) ==
  <<systemInstruction,
    [chatMessage("user", "blog", chunkOf(originalText, i)) EXCEPT !.note = <<i, total>>]>>

\* the comment a refinement is asked with
Comment == <<"c">>

\* POST /api/refine-content: currentPlatformOutput, <<>> when there is none
currentPlatformOutput(db, documentId, platform) ==
  LET idx == findIndex(db.userDocuments, documentId)
      content == db.userDocuments[idx].generatedContent
  IN IF platform \in DOMAIN content /\ content[platform] # <<>>
     THEN <<content[platform]>> ELSE <<>>

\* generateRefinedContent: the messages of the refinement request
refineMessages(g, base) ==
  <<systemInstruction, chatMessage("user", "transcript", g.originalText),
    chatMessage("assistant", "base", base),
    [chatMessage("user", "refine", Comment) EXCEPT
       !.current = currentPlatformOutput(g.db, g.documentId, g.platform)]>>

\* generateTwitterThread: the messages of the thread request
threadMessages(originalText) ==
  <<systemInstruction, chatMessage("user", "thread", originalText)>>

\* generateContent resolved with text: what its caller does next
resolved(g, text) ==
  IF g.op = "generateRefinedContent"
  THEN [g EXCEPT !.phase = "refine", !.base = text, !.sent["refine"] = @ + 1,
                 !.convo = refineMessages(g, text)]
  ELSE [g EXCEPT !.phase = "done", !.status = "returned", !.result = text,
                 !.code = IF g.op = "generateBlog" THEN 200 ELSE 0]

\* a model request failed and the error went up to the caller as message
threwError(g, message) ==
  [g EXCEPT !.phase = "done", !.status = "threw", !.error = message,
            !.failures = @ + 1, !.code = IF g.op = "generatePodcast" THEN 0 ELSE 500]

\* generateBlogByChunks: the number of chunks of the original text
chunkCount(originalText) == (Len(originalText) + chunkSize - 1) \div chunkSize

\* chatCompleteWithContinuation returned text, cut tells that the last round
\* was still truncated
continuationReturned(g, text, cut) ==
  LET h == [g EXCEPT !.truncated = @ \/ cut] IN
  IF g.phase = "continuation"
  THEN resolved([h EXCEPT !.empty = (text = <<>>)], text)
  ELSE LET sections == Append(g.sections, trim(text)) IN
       IF g.chunk < g.total
       THEN [h EXCEPT !.sections = sections, !.chunk = @ + 1, !.turn = 0, !.all = <<>>,
                      !.sent["blog"] = @ + 1, !.parts = <<>>, !.cut = FALSE,
                      !.convo = chunkMessages(g.originalText, g.chunk + 1, g.total)]
       ELSE resolved([h EXCEPT !.sections = sections,
                               !.empty = (joined(sections, <<"\n", "\n">>) = <<>>)],
                     joined(sections, <<"\n", "\n">>))

\* a continuation loop that puts each new part in front of what it has
chatCompletePrepending(g, r) ==
  LET all == r.content \o (IF g.all # <<>> /\ r.content # <<>> THEN <<"\n", "\n">> ELSE <<>>)
                       \o g.all
      cut == r.finish \in {"length", "content_filter"}
  IN IF cut /\ g.turn + 1 < maxTurns
     THEN [g EXCEPT !.all = all, !.turn = @ + 1, !.sent["blog"] = @ + 1,
                    !.parts = Append(@, r.content), !.cut = cut,
                    !.convo = @ \o continuation(r.content)]
     ELSE continuationReturned([g EXCEPT !.all = all, !.parts = Append(@, r.content),
                                         !.cut = cut],
                               trim(all), cut)

\* one round of chatCompleteWithContinuation: the response r to the request of
\* round g.turn
chatCompleteWithContinuation(g, r) ==
  LET all == g.all \o (IF g.all # <<>> /\ r.content # <<>> THEN <<"\n", "\n">> ELSE <<>>)
                   \o r.content
      cut == r.finish \in {"length", "content_filter"}
  IN IF cut /\ g.turn + 1 < maxTurns
     THEN [g EXCEPT !.all = all, !.turn = @ + 1, !.sent["blog"] = @ + 1,
                    !.parts = Append(@, r.content), !.cut = cut,
                    !.convo = @ \o continuation(r.content)]
     ELSE continuationReturned([g EXCEPT !.all = all, !.parts = Append(@, r.content),
                                         !.cut = cut],
                               trim(all), cut)

generateBlogByChunks(g) ==
  LET total == chunkCount(g.originalText) IN
  IF total = 0
  THEN resolved([g EXCEPT !.phase = "chunks", !.empty = TRUE], <<>>)
  ELSE [g EXCEPT !.phase = "chunks", !.total = total, !.chunk = 1, !.turn = 0,
                 !.all = <<>>, !.sections = <<>>, !.sent["blog"] = @ + 1,
                 !.parts = <<>>, !.cut = FALSE,
                 !.convo = chunkMessages(g.originalText, 1, total)]

anyError(message) == TRUE

\* generateContent, lines 437-438
looksContextError(message) ==
  \/ includes(lowerCase(message), <<"c", "o", "n", "t", "e", "x", "t">>)
  \/ includes(lowerCase(message),
              <<"m", "a", "x", "i", "m", "u", "m", " ", "c", "o", "n", "t", "e", "x", "t">>)
  \/ includes(lowerCase(message), <<"t", "o", "k", "e", "n">>)

\* generateContent for the blog platform: the response r to its outstanding request
blogResponded(g, r) ==
  IF ~r.failed THEN chatCompleteWithContinuation(g, r)
  ELSE IF g.phase = "continuation" /\ looksContextError(r.message)
       THEN generateBlogByChunks([g EXCEPT !.failures = @ + 1,
                                           !.fallbackCause = r.message])
       ELSE threwError(g, "Failed to generate content")

\* generateContent for the other platforms: the response r to its one request
singleResponded(g, r) ==
  IF r.failed THEN threwError(g, "Failed to generate content")
  ELSE resolved([g EXCEPT !.empty = (r.content = <<>>)],
                IF r.content # <<>> THEN r.content ELSE errorGenerating)

\* generateRefinedContent: the response r to the refinement turn
refineResponded(g, r) ==
  IF r.failed THEN threwError(g, "Failed to refine content")
  ELSE [g EXCEPT !.phase = "done", !.status = "returned", !.code = 200,
                 !.refineText = r.content,
                 !.result = IF r.content # <<>> THEN r.content ELSE errorRefining]

\* generateAllContent: one of the two generateContent calls of Promise.all settled
parallelResponded(g, which, r) ==
  IF r.failed THEN threwError(g, "Failed to generate content")
  ELSE LET post == [done |-> TRUE,
                       text |-> IF r.content # <<>> THEN r.content ELSE errorGenerating]
           h == IF which = "linkedin"
                THEN [g EXCEPT !.linkedinPost = post, !.empty = @ \/ r.content = <<>>]
                ELSE [g EXCEPT !.twitterPost = post, !.empty = @ \/ r.content = <<>>]
       IN IF h.linkedinPost.done /\ h.twitterPost.done
          THEN [h EXCEPT !.phase = "thread", !.sent["thread"] = @ + 1,
                         !.convo = threadMessages(g.originalText)]
          ELSE h

\* the response r asks for the deterministic split: its text is empty or
\* looks like a refusal
asksFallback(r) == ~r.failed /\ (r.content = <<>> \/ looksLikeRefusal(r.content))

\* a thread builder that always splits the transcript
threadOfTranscript(originalText, fallbackSource, r) ==
  IF r.failed \/ asksFallback(r) THEN splitToTweets(originalText)
  ELSE IF parsedThread(r.content) # <<>> THEN parsedThread(r.content)
       ELSE splitToTweets(originalText)

generateTwitterThread(originalText, fallbackSource, r) ==
  LET source == IF fallbackSource # <<>> THEN fallbackSource ELSE originalText IN
  IF r.failed \/ asksFallback(r) THEN splitToTweets(source)
  ELSE IF parsedThread(r.content) # <<>> THEN parsedThread(r.content)
       ELSE splitToTweets(source)

\* generateAllContent: the response r to the thread prompt
threadResponded(g, r) ==
  [g EXCEPT !.phase = "done", !.status = "returned", !.code = 200,
            !.threadText = r.content, !.fellBack = asksFallback(r),
            !.threadFailed = r.failed,
            !.thread = generateTwitterThread(g.originalText, g.linkedinPost.text, r)]

\* POST /api/generate-blog, lines 25-35: the database it saves
withBlog(db, documentId, blogPost) ==
  LET idx == findIndex(db.userDocuments, documentId)
      content == db.userDocuments[idx].generatedContent
  IN [db EXCEPT !.userDocuments[idx].generatedContent =
                   [p \in (DOMAIN content) \cup {"blog"} |->
                      IF p = "blog" THEN blogPost ELSE content[p]],
                !.userDocuments[idx].hasGeneratedContent = TRUE]

\* GenerateContentPage.run: the body saveGeneratedContent sends
generatedBody(g) ==
  [generatedContent |-> [blog |-> <<>>, linkedin |-> g.linkedinPost.text,
                         twitter |-> g.twitterPost.text, podcast |-> <<>>],
   hasGeneratedContent |-> TRUE]

\* the draft collection after a generation call settled as g
persisted(db, g) ==
  IF g.status # "returned" THEN db
  ELSE IF g.op = "generateBlog" THEN withBlog(g.db, g.documentId, g.result)
  ELSE IF g.op = "generateAllContent"
       THEN PatchUserDocument(PatchUserDocument(db, g.documentId, generatedBody(g)).db,
                              g.documentId, [requiresRegeneration |-> FALSE]).db
  ELSE db

settledAs(g, status, code, message) ==
  [g EXCEPT !.phase = "done", !.status = status, !.code = code, !.error = message]

started(op, platform, documentId) ==
  [NoGeneration EXCEPT !.op = op, !.platform = platform, !.documentId = documentId,
      !.originalText = combinedTranscript(ofDocument(draftDb.voiceSessions, documentId)),
      !.db = draftDb, !.status = "running", !.calls = generation.calls + 1]

\* generateContent up to its first model request
requested(g) ==
  [g EXCEPT !.phase = IF g.platform = "blog" THEN "continuation" ELSE "single",
            !.sent[g.platform] = @ + 1,
            !.convo = baseMessages(g.platform, g.originalText)]

\* POST /api/generate-blog
BeginGenerateBlog(documentId) ==
  /\ pending = <<>>
  /\ generation.status # "running"
  /\ generation.calls < MaxGenerations
  /\ generation' =
       IF findIndex(draftDb.userDocuments, documentId) = 0
       THEN settledAs(started("generateBlog", "blog", documentId), "returned", 404,
                      "Document not found")
       ELSE requested(started("generateBlog", "blog", documentId))
  /\ UNCHANGED <<posts, draftDb, completedDb, nextDocId, nextSessionId, pending, rejected, call,
                 storage>>

\* GenerateContentPage.run -> POST /api/generate-content -> generateAllContent
BeginGenerateAllContent(documentId) ==
  /\ pending = <<>>
  /\ generation.status # "running"
  /\ generation.calls < MaxGenerations
  /\ LET g == [started("generateAllContent", "none", documentId) EXCEPT
                 !.originalText =
                    combinedTranscript(getVoiceSessions(draftDb, completedDb, documentId))]
     IN generation' =
          IF GetUserDocument(draftDb, documentId) # 200
          THEN settledAs(g, "threw", 404, "Failed to fetch document: 404")
          ELSE IF g.originalText = <<>>
          THEN settledAs(g, "threw", 400, "Generate failed 400")
          ELSE [g EXCEPT !.phase = "parallel", !.sent["linkedin"] = 1,
                         !.sent["twitter"] = 1]
  /\ UNCHANGED <<posts, draftDb, completedDb, nextDocId, nextSessionId, pending, rejected, call,
                 storage>>

\* POST /api/refine-content -> generateRefinedContent
BeginGenerateRefinedContent(documentId, platform) ==
  /\ pending = <<>>
  /\ generation.status # "running"
  /\ generation.calls < MaxGenerations
  /\ generation' =
       IF findIndex(draftDb.userDocuments, documentId) = 0
       THEN settledAs(started("generateRefinedContent", platform, documentId),
                      "returned", 404, "Document not found")
       ELSE requested(started("generateRefinedContent", platform, documentId))
  /\ UNCHANGED <<posts, draftDb, completedDb, nextDocId, nextSessionId, pending, rejected, call,
                 storage>>

\* generatePodcast
BeginGeneratePodcast(documentId) ==
  /\ pending = <<>>
  /\ generation.status # "running"
  /\ generation.calls < MaxGenerations
  /\ generation' = requested(started("generatePodcast", "podcast", documentId))
  /\ UNCHANGED <<posts, draftDb, completedDb, nextDocId, nextSessionId, pending, rejected, call,
                 storage>>

\* the request whose response arrives next
outstanding(g, which) ==
  CASE g.phase \in {"continuation", "chunks"} -> "blog"
    [] g.phase = "single" -> g.platform
    [] g.phase = "parallel" -> which
    [] g.phase = "thread" -> "thread"
    [] OTHER -> "refine"

\* the rounds of the running continuation loop that were answered with no text
emptyParts(g) == {i \in DOMAIN g.parts : g.parts[i] = <<>>}

\* the model provider answers an outstanding request
ModelResponds(which, r) ==
  /\ generation.status = "running"
  /\ (generation.phase \in {"continuation", "chunks"} /\ ~r.failed /\ r.content = <<>>)
       => Cardinality(emptyParts(generation)) < MaxEmptyParts
  /\ IF generation.phase = "parallel"
     THEN ~(IF which = "linkedin" THEN generation.linkedinPost.done
            ELSE generation.twitterPost.done)
     ELSE which = "linkedin"
  /\ r \in Responses(outstanding(generation, which), generation.turn)
  /\ generation' =
       CASE generation.phase \in {"continuation", "chunks"} -> blogResponded(generation, r)
         [] generation.phase = "single" -> singleResponded(generation, r)
         [] generation.phase = "parallel" -> parallelResponded(generation, which, r)
         [] generation.phase = "thread" -> threadResponded(generation, r)
         [] OTHER -> refineResponded(generation, r)
  /\ draftDb' = persisted(draftDb, generation')
  /\ UNCHANGED <<posts, completedDb, nextDocId, nextSessionId, pending, rejected, call, storage>>

AllResponses == UNION {Responses(kind, turn) : kind \in RequestKinds, turn \in 0..(maxTurns - 1)}

NextGenerate ==
  \/ CreateDocument(1, "T")
  \/ \E d \in DocIds, r \in Recordings : AddSession(d, r)
  \/ \E d \in DocIds : UpdateGeneratedPlatform(d, "linkedin", <<"r">>)
  \/ \E d \in DocIds : BeginGenerateBlog(d)
  \/ \E d \in DocIds : BeginGenerateAllContent(d)
  \/ \E d \in DocIds, p \in Platforms : BeginGenerateRefinedContent(d, p)
  \/ \E d \in DocIds : BeginGeneratePodcast(d)
  \/ \E which \in {"linkedin", "twitter"}, r \in AllResponses : ModelResponds(which, r)

SpecGenerate == Init /\ [][NextGenerate]_vars

\* the generate-content page of a document whose sessions the editor changes
\* meanwhile; the model answers every request in full or fails
NextRegenerate ==
  \/ CreateDocument(1, "T")
  \/ \E d \in DocIds, r \in Recordings : AddSessionUpTo(MaxSessions + 1, d, r)
  \/ \E s \in SessionIds : DeleteSession(s)
  \/ \E d \in DocIds : BeginGenerateAllContent(d)
  \/ \E which \in {"linkedin", "twitter"}, r \in AllResponses :
       /\ r.finish \in {"", "stop"}
       /\ ModelResponds(which, r)

SpecRegenerate == Init /\ [][NextRegenerate]_vars

\* the blog route alone
NextBlog ==
  \/ CreateDocument(1, "T")
  \/ \E d \in DocIds, r \in Recordings : AddSession(d, r)
  \/ \E d \in DocIds : BeginGenerateBlog(d)
  \/ \E r \in AllResponses : ModelResponds("linkedin", r)

\* every model request is answered or fails: the library awaits each one
SpecBlog ==
  /\ Init /\ [][NextBlog]_vars
  /\ WF_vars(\E r \in AllResponses : ModelResponds("linkedin", r))

(* ----------------------------- C17 ------------------------------------ *)
\* C17: generated content is stored only after a successful full response: the
\* blog text POST /api/generate-blog stored for a document is neither empty nor
\* an output that was still truncated when the continuation rounds were used
\* up, and the posts GenerateContentPage.run stored do not stand for a
\* response with empty content.
C17_OnlyFullResponsesStored ==
  \A i \in 1..Len(draftDb.userDocuments) :
    LET doc == draftDb.userDocuments[i] IN
    /\ (/\ generation.op = "generateBlog"
        /\ generation.documentId = doc.id
        /\ "blog" \in DOMAIN doc.generatedContent)
       => (doc.generatedContent.blog # <<>> /\ ~generation.truncated)
    /\ (/\ generation.op = "generateAllContent"
        /\ generation.documentId = doc.id
        /\ "linkedin" \in DOMAIN doc.generatedContent)
       => ~generation.empty

(* ----------------------------- C18 ------------------------------------ *)
\* C18: whenever the model's thread response is empty or looks like a refusal,
\* the returned thread is non-empty, every tweet has at most 280 characters, no
\* tweet but the first carries the lead marker, and every tweet after the first
\* ends with "(i/n)", i its position and n the number of tweets.
C18_ThreadFallback ==
  (/\ generation.op = "generateAllContent"
   /\ generation.status = "returned"
   /\ generation.fellBack)
  => LET thread == generation.thread
         n == Len(thread)
     IN /\ thread # <<>>
        /\ \A i \in 1..n : Len(thread[i]) <= max
        /\ \A i \in 2..n : /\ ~includes(thread[i], leadMarker)
                           /\ endsWith(thread[i], indexSuffix(i, n))

(* ----------------------------- C19 ------------------------------------ *)
\* generateContent(p) has been called in the current generation call
invoked(p) ==
  /\ generation.status # "idle"
  /\ generation.code \notin {400, 404}
  /\ \/ generation.platform = p
     \/ generation.op = "generateAllContent" /\ p \in {"linkedin", "twitter"}

GenericErrors == {"Failed to generate content", "Failed to refine content"}

\* the failure messages that contain 'context' or 'token'
ContextShaped ==
  { <<"m", "a", "x", "i", "m", "u", "m", " ", "c", "o", "n", "t", "e", "x", "t">>,
    <<"T", "o", "k", "e", "n", " ", "l", "i", "m", "i", "t">> }

\* C19 as stated: generateContent for linkedin, twitter and podcast sends
\* exactly one model request, and every failed model call of generateContent
\* or generateRefinedContent is re-thrown to the caller as 'Failed to generate
\* content' or 'Failed to refine content', none is answered by further requests.
C19_EveryFailureRethrown ==
  /\ \A p \in Platforms \ {"blog"} : invoked(p) => generation.sent[p] = 1
  /\ generation.failures > 0
       => generation.status = "threw" /\ generation.error \in GenericErrors

\* C19 (amended): generateContent for linkedin, twitter and podcast sends
\* exactly one model request and the refinement turn is sent at most once; a
\* failed model call is re-thrown as one of the two generic errors, except that
\* generateContent for the blog platform answers one context-size-shaped failure
\* of its first continuation loop by the chunked generation.
C19_FailureRethrownOrChunked ==
  /\ \A p \in Platforms \ {"blog"} : invoked(p) => generation.sent[p] = 1
  /\ generation.sent["refine"] <= 1
  /\ generation.failures > 0
       => \/ generation.status = "threw" /\ generation.error \in GenericErrors
          \/ /\ generation.platform = "blog"
             /\ generation.failures = 1
             /\ generation.fallbackCause \in ContextShaped
             /\ generation.phase # "continuation"

\* the refinement turn of a linkedin post failed and was re-thrown after one
\* request for the base output and one for the refinement
C19_Witness ==
  /\ generation.op = "generateRefinedContent"
  /\ generation.platform = "linkedin"
  /\ generation.status = "threw"
  /\ generation.error = "Failed to refine content"
  /\ generation.failures = 1
  /\ generation.sent["linkedin"] = 1
  /\ generation.sent["refine"] = 1

(* ----------------------------- C20 ------------------------------------ *)
\* the collection that is the partition of a status
partition(draft, completed, status) == IF status = "completed" THEN completed ELSE draft

otherStatus(status) == IF status = "completed" THEN "draft" ELSE "completed"

\* C20: every successful PUT /userDocuments/{id}/status whose status names a
\* partition that already stores the document replaces the record where it is,
\* saves only that partition, and leaves the other partition and the sessions
\* of both as they were.
C20_PureStatusFlip ==
  \A d \in AllDocIds, st \in Statuses :
    LET r == PutStatus(draftDb, completedDb, d, st)
        before == partition(draftDb, completedDb, st)
        after == partition(r.draft, r.completed, st)
        i == findIndex(before.userDocuments, d)
    IN (pending = <<>> /\ i # 0 /\ r.code = 200)
       => /\ r.saves = {st}
          /\ after.userDocuments =
               [before.userDocuments EXCEPT ![i] = [@ EXCEPT !.status = st]]
          /\ partition(r.draft, r.completed, otherStatus(st))
               = partition(draftDb, completedDb, otherStatus(st))
          /\ after.voiceSessions = before.voiceSessions

\* a transcript as short as a sentence and one a character longer than a chunk
LongRecordings ==
  {[transcript |-> <<"a">>, duration |-> 2],
   [transcript |-> Rep("a", chunkSize) \o <<"b">>, duration |-> 1]}

\* the blog route over long transcripts, the model cutting at most
\* MaxContinuations parts of a loop
NextChunks ==
  \/ CreateDocument(1, "T")
  \/ \E d \in DocIds, r \in LongRecordings : AddSession(d, r)
  \/ \E d \in DocIds : BeginGenerateBlog(d)
  \/ \E r \in AllResponses :
       /\ r.finish \in {"length", "content_filter"} => generation.turn < MaxContinuations
       /\ ModelResponds("linkedin", r)

SpecChunks == Init /\ [][NextChunks]_vars

\* the messages a continuation loop has added to its first request after parts
RECURSIVE continued(_)
continued(parts) ==
  IF parts = <<>> THEN <<>>
  ELSE <<[role |-> "assistant", kind |-> "part", text |-> Head(parts),
          note |-> <<>>, current |-> <<>>],
         [role |-> "user", kind |-> "continue", text |-> <<>>,
          note |-> <<>>, current |-> <<>>]>> \o continued(Tail(parts))

\* a continuation loop of the generation is waiting for a response; chunk is 0
\* for the loop over the whole transcript
inLoop(chunk) ==
  /\ generation.status = "running"
  /\ \/ generation.phase = "continuation" /\ chunk = 0
     \/ generation.phase = "chunks" /\ generation.chunk = chunk /\ chunk > 0

\* the blog route returned the result of one continuation loop over the transcript
loopReturned ==
  /\ generation.op = "generateBlog"
  /\ generation.status = "returned"
  /\ generation.fallbackCause = <<>>

C21_LoopRounds ==
  (\E chunk \in 0..1 : inLoop(chunk)) =>
     /\ generation.turn + 1 <= maxTurns
     /\ Len(generation.parts) = generation.turn
     /\ (generation.turn >= 1 => generation.cut)
     /\ Len(generation.convo) = 2 + 2 * generation.turn
     /\ SubSeq(generation.convo, 3, Len(generation.convo)) = continued(generation.parts)

C21_LoopResult ==
  loopReturned =>
     /\ Len(generation.parts) <= maxTurns
     /\ (generation.cut => Len(generation.parts) = maxTurns)
     /\ generation.result =
          trim(joined(SelectSeq(generation.parts, LAMBDA part : part # <<>>),
                      <<"\n", "\n">>))

\* C21: chatCompleteWithContinuation issues at most 10 requests and always
\* returns; it goes on only after a response cut by length or content_filter
\* and stops at the first response that is not; every further request is the
\* conversation so far followed by the part just received as an assistant turn
\* and the instruction to continue without repeating; the result is the
\* received parts in the order of their rounds, each once, joined by blank lines.
C21_ContinuationLoop ==
  /\ [](C21_LoopRounds /\ C21_LoopResult)
  /\ \A chunk \in 0..1 : inLoop(chunk) ~> ~inLoop(chunk)

C21_Witness ==
  /\ loopReturned
  /\ Len(generation.parts) = maxTurns
  /\ generation.cut
  /\ generation.parts[2] = <<>>
  /\ generation.result # <<>>
\* the characters first..last of text, counted from 1, as far as there are any
characters(text, first, last) ==
  [k \in 1..((IF last < Len(text) THEN last ELSE Len(text)) - first + 1) |->
     text[first + k - 1]]

\* the chunked generation was entered
chunked == generation.fallbackCause # <<>>

C22_Entered ==
  /\ chunked => generation.fallbackCause \in ContextShaped
  /\ (generation.status = "threw" /\ ~chunked) =>
        /\ generation.sections = <<>> /\ generation.total = 0
        /\ generation.error \in GenericErrors

C22_Chunk ==
  (generation.status = "running" /\ generation.phase = "chunks") =>
     LET i == generation.chunk
         prompt == generation.convo[2]
     IN /\ i \in 1..generation.total
        /\ (generation.total - 1) * chunkSize < Len(generation.originalText)
        /\ Len(generation.originalText) <= generation.total * chunkSize
        /\ Len(generation.sections) = i - 1
        /\ prompt.role = "user"
        /\ prompt.text = characters(generation.originalText,
                                    (i - 1) * chunkSize + 1, i * chunkSize)
        /\ Len(prompt.text) <= chunkSize
        /\ prompt.note = <<i, generation.total>>

C22_Stitched ==
  (generation.op = "generateBlog" /\ generation.status = "returned" /\ chunked) =>
     /\ Len(generation.sections) = generation.total
     /\ generation.result = joined(generation.sections, <<"\n", "\n">>)

\* the section a continuation loop returns when its next response has content
sectionWith(content) ==
  trim(joined(SelectSeq(Append(generation.parts, content), LAMBDA part : part # <<>>),
              <<"\n", "\n">>))

C22_InOrder ==
  (generation.phase = "chunks" /\ generation.status = "running"
     /\ generation'.sections # generation.sections) =>
       /\ \E content \in BlogParts(generation.turn) :
            generation'.sections = Append(generation.sections, sectionWith(content))
       /\ \/ generation'.status = "returned"
             /\ generation.chunk = generation.total
          \/ generation'.status = "running"
             /\ generation'.chunk = generation.chunk + 1

\* C22: the chunked fallback is entered only when the continuation loop over
\* the whole transcript failed with an error whose message has the shape of a
\* context-size error (it contains 'context' or 'token'); the transcript is
\* cut into consecutive chunks of at most 8000 characters that together are
\* the transcript; the chunks are processed in order, each request told that
\* it is part i of n; the result is the sections in chunk order joined by
\* blank lines; any other failure surfaces as the generic error and nothing is
\* chunked.
C22_ChunkedFallback ==
  /\ [](C22_Entered /\ C22_Chunk /\ C22_Stitched)
  /\ [][C22_InOrder]_vars

C22_Witness ==
  /\ generation.op = "generateBlog" /\ generation.status = "returned" /\ chunked
  /\ generation.total = 2
  /\ generation.sections[1] # <<>>
  /\ generation.sections[2] # <<>>
  /\ generation.sections[1] # generation.sections[2]
(* ----------------------------- C23 ------------------------------------ *)
\* the thread responses that are empty, refusal-shaped or without any tweet
Unusable == {<<>>, <<"\n">>, <<"I", "'", "m", " ", "s", "o", "r", "r", "y">>}

\* generateTwitterThread has answered
threadBuilt ==
  /\ generation.op = "generateAllContent"
  /\ generation.sent["thread"] > 0
  /\ generation.phase # "thread"

C24_BlogFirst ==
  (generation.op = "generateAllContent" /\ generation.status # "idle") =>
    /\ (\E p \in {"linkedin", "twitter", "podcast", "thread"} : generation.sent[p] > 0)
         => generation.sent["blog"] > 0
    /\ generation.sent["thread"] > 0
         => \A p \in {"linkedin", "twitter", "podcast"} : generation.sent[p] > 0
    /\ (generation.status = "returned" /\ generation.threadFailed)
         => generation.thread = splitToTweets(generation.result)
(* ----------------------------- C25 ------------------------------------ *)
\* generateRefinedContent has been called for an existing document
refining ==
  /\ generation.op = "generateRefinedContent"
  /\ generation.status # "idle"
  /\ generation.code # 404

\* the output saved for the platform when the refinement was asked for
savedOutput ==
  LET doc == generation.db.userDocuments[findIndex(generation.db.userDocuments,
                                                   generation.documentId)]
  IN IF generation.platform \in DOMAIN doc.generatedContent
        /\ doc.generatedContent[generation.platform] # <<>>
     THEN <<doc.generatedContent[generation.platform]>> ELSE <<>>

\* the order of the requests and the messages of the refinement request
C25_Turns ==
  refining =>
    /\ generation.sent["refine"] <= 1
    /\ generation.sent["refine"] = 1 =>
         /\ generation.sent[generation.platform] >= 1
         /\ Len(generation.convo) = 4
         /\ generation.convo[1].role = "system"
         /\ generation.convo[2] = [role |-> "user", kind |-> "transcript",
                                   text |-> generation.originalText,
                                   note |-> <<>>, current |-> <<>>]
         /\ generation.convo[3] = [role |-> "assistant", kind |-> "base",
                                   text |-> generation.base,
                                   note |-> <<>>, current |-> <<>>]
         /\ generation.convo[4] = [role |-> "user", kind |-> "refine", text |-> Comment,
                                   note |-> <<>>, current |-> savedOutput]
    /\ (generation.status = "threw" /\ generation.error = "Failed to generate content")
         => generation.sent["refine"] = 0

\* what is returned is the response to the refinement request
C25_Returned ==
  (refining /\ generation.status = "returned") =>
    /\ generation.sent["refine"] = 1
    /\ generation.result = generation.refineText

\* C25: generateRefinedContent first regenerates the base output of the
\* platform and only then issues exactly one refinement request, whose
\* messages are the system instruction, the transcript as a user message, the
\* base output as an assistant message and a last user message with the
\* instruction and, when one was supplied, the current saved output; it
\* returns the response to that request, without continuation; when the base
\* generation fails no refinement request is issued.
C25_RefinementTurn == C25_Turns /\ C25_Returned
(* ----------------------------- C26 ------------------------------------ *)
\* both requests were answered 201, first before last
bothReturned(first, last) ==
  /\ posts[first].at = "returned" /\ posts[last].at = "returned"
  /\ posts[first].seq < posts[last].seq

\* C26: two POST /voiceSessions handled at the same time can lose a session:
\* when both have returned success, the session of the one that saved first
\* is stored only if the other had read the collection after that save; in
\* the interleaving read, read, save, save only the session saved last is
\* stored, and there is such an interleaving for two sessions of one document.
C26_LostSession ==
  \A first, last \in Requests :
    bothReturned(first, last) =>
      /\ posts[last].id \in idsOf(draftDb.voiceSessions)
      /\ posts[first].id \in idsOf(draftDb.voiceSessions)
           <=> posts[first].id \in idsOf(posts[last].db.voiceSessions)

C26_Witness ==
  \E first, last \in Requests :
    /\ bothReturned(first, last)
    /\ posts[first].body.documentId = posts[last].body.documentId
    /\ posts[first].id \notin idsOf(draftDb.voiceSessions)
    /\ Len(ofDocument(draftDb.voiceSessions, posts[last].body.documentId)) = 1
(* ----------------------------- C27 ------------------------------------ *)
\* C27: after any series of session additions and deletions made one after
\* the other through the editor, the stored sessions of a document have
\* pairwise distinct sessionNumber values.
C27_DistinctNumbers ==
  \A d \in AllDocIds :
    LET sessions == ofDocument(StoredSessions, d) IN
    \A i, j \in 1..Len(sessions) :
      i # j => sessions[i].sessionNumber # sessions[j].sessionNumber
(* ----------------------------- C28 ------------------------------------ *)
\* the generate-content page stored the content it generated for document d
generatedFor(d) ==
  /\ generation.op = "generateAllContent"
  /\ generation.status = "returned"
  /\ generation.documentId = d

\* C28: requiresRegeneration is false only when the stored content was
\* produced from the current sessions of the document: also when a session is
\* added, edited or deleted while a generation is in flight, no later state
\* has content generated from other sessions stored with requiresRegeneration
\* false.
C28_FreshOrFlagged ==
  \A i \in 1..Len(draftDb.userDocuments) :
    LET doc == draftDb.userDocuments[i] IN
    (generatedFor(doc.id) /\ ~doc.requiresRegeneration) =>
       generation.originalText =
         combinedTranscript(getVoiceSessions(draftDb, completedDb, doc.id))
(* ----------------------------- C29 ------------------------------------ *)
\* the last operation was save and it reported success
savedBy(save) ==
  /\ storage.op = save
  /\ ~storage.result.threw
  /\ storage.result.value = [ok |-> TRUE]

\* C29: read-your-writes through the hybrid storage: when saveDatabase (or
\* saveBlogDatabase) has reported success, the next getDatabase (or
\* getBlogDatabase) that returns gives the data just saved, whatever backend
\* calls fail and fall back in between.
C29_ReadYourWrites ==
  [][/\ (savedBy("saveDatabase") /\ storage'.op = "getDatabase"
           /\ ~storage'.result.threw)
          => storage'.result.value = storage.saved[1]
     /\ (savedBy("saveBlogDatabase") /\ storage'.op = "getBlogDatabase"
           /\ ~storage'.result.threw)
          => storage'.result.value = storage.saved[1]]_vars
(* ----------------------------- C30 ------------------------------------ *)
\* the number of times x is stored in the array
occurrences(arr, x) == Cardinality({i \in 1..Len(arr) : arr[i] = x})

\* two arrays store the same items, each as often in one as in the other
sameItems(a, b) ==
  /\ Len(a) = Len(b)
  /\ \A i \in 1..Len(a) : occurrences(a, a[i]) = occurrences(b, a[i])

\* C30: setting a draft document completed and then draft again, both requests
\* answered 200, leaves it in the draft partition with the fields it had, with
\* exactly the sessions it had, none lost and none stored twice, and leaves
\* every other document and session where it was.
C30_StatusRoundTrip ==
  \A d \in idsOf(draftDb.userDocuments) :
    LET first == PutStatus(draftDb, completedDb, d, "completed")
        second == PutStatus(first.draft, first.completed, d, "draft")
        before == draftDb.userDocuments[findIndex(draftDb.userDocuments, d)]
    IN (pending = <<>> /\ before.status = "draft"
          /\ first.code = 200 /\ second.code = 200)
       => /\ d \in idsOf(second.draft.userDocuments)
          /\ d \notin idsOf(second.completed.userDocuments)
          /\ second.draft.userDocuments[findIndex(second.draft.userDocuments, d)] = before
          /\ sameItems(ofDocument(second.draft.voiceSessions \o second.completed.voiceSessions, d),
                       ofDocument(StoredSessions, d))
          /\ \A i, j \in 1..Len(ofDocument(second.draft.voiceSessions, d)) :
               i # j => ofDocument(second.draft.voiceSessions, d)[i].id
                          # ofDocument(second.draft.voiceSessions, d)[j].id
          /\ sameItems(withoutId(second.draft.userDocuments, d),
                       withoutId(draftDb.userDocuments, d))
          /\ sameItems(second.completed.userDocuments,
                       withoutId(completedDb.userDocuments, d))
          /\ sameItems(notOfDocument(second.draft.voiceSessions, d),
                       notOfDocument(draftDb.voiceSessions, d))
          /\ sameItems(notOfDocument(second.completed.voiceSessions, d),
                       notOfDocument(completedDb.voiceSessions, d))
====
